---- MODULE Spec2Model ----
(***************************************************************************)
(* A model of the extraction -> build -> graph store -> query pipeline of  *)
(* building-intelligence: OpenAIClient.analyze_diagram_with_gpt5,          *)
(* SceneGraphService._convert_to_scene_graph / query_scene_graphs and      *)
(* Neo4jDatabase.store_scene_graph / get_all_diagrams.                     *)
(*                                                                         *)
(* Python values are tagged records: [t |-> "null"], [t |-> "str", v],     *)
(* [t |-> "num", v], [t |-> "dict", v] (v a function from keys to values), *)
(* [t |-> "list", v] (v a sequence).  str(uuid.uuid4()) is                 *)
(* [t |-> "uuid", v |-> n], n the number of the draw: two draws differ.    *)
(***************************************************************************)
EXTENDS Integers, Sequences, FiniteSets, TLC

VARIABLES
    uuidCtr,    \* number of uuid4() draws made so far
    assigned,   \* diagram ids handed out by _convert_to_scene_graph so far
    lastBuild,  \* the last _convert_to_scene_graph call: input and outcome
    built,      \* the SceneGraphs returned by _convert_to_scene_graph, in order
    dnodes,     \* Neo4j: the Diagram nodes, in creation order
    cnodes,     \* Neo4j: the Component nodes, in creation order
    edges,      \* Neo4j: the relationships, in creation order
    clock,      \* Neo4j: a time later than every created_at of the store
    sc,         \* the running store_scene_graph call
    q,          \* the running query_scene_graphs call
    ex,         \* the running analyze_diagram_with_gpt5 call
    up,         \* the running upload_diagram request, or process_file call
    hc,         \* the running health_check request
    par,        \* store_scene_graph calls running side by side
    ws          \* websocket_chat: the handler of one chat connection

vars == <<uuidCtr, assigned, lastBuild, built, dnodes, cnodes, edges, clock, sc, q, ex,
          up, hc, par, ws>>

-----------------------------------------------------------------------------
(* Bounds of the model. *)

MaxComps == 2       \* longest candidate components list in the build model
MaxRels == 1        \* longest candidate relationships list in the build model
MaxBuilds == 2      \* _convert_to_scene_graph calls per behaviour
MaxStores == 2      \* store_scene_graph calls per behaviour
MaxLen == 4         \* longest model response, in tokens
MaxName == 3        \* longest filename, in tokens

-----------------------------------------------------------------------------
(* Python values. *)

Null == [t |-> "null"]
Str(s) == [t |-> "str", v |-> s]
Num(n) == [t |-> "num", v |-> n]
Dict(f) == [t |-> "dict", v |-> f]
List(s) == [t |-> "list", v |-> s]
Uuid(n) == [t |-> "uuid", v |-> n]
EmptyDict == Dict(<<>>)

IsNull(x) == x.t = "null"
IsStr(x) == x.t \in {"str", "uuid", "fstr", "repr"}
IsNum(x) == x.t = "num"
IsDict(x) == x.t = "dict"
IsList(x) == x.t = "list"

\* dict.get(key, default) on the function under a "dict" value
Get(d, k, default) == IF k \in DOMAIN d THEN d[k] ELSE default

\* d.setdefault(k, x): a value the dict has for k stays.  (A bug the code does
\* not have.)
SetDefault(d, k, x) == [kk \in (DOMAIN d) \cup {k} |-> IF kk \in DOMAIN d THEN d[kk] ELSE x]

\* d[k] = x on the function under a "dict" value
Put(d, k, x) == [kk \in (DOMAIN d) \cup {k} |-> IF kk = k THEN x ELSE d[kk]]

\* Python truthiness of a value (if node.position, if not content, if diagram_id)
Truthy(x) ==
    CASE IsNull(x) -> FALSE
      [] x.t = "str" -> x.v # ""
      [] IsNum(x) -> x.v # 0
      [] IsDict(x) -> DOMAIN x.v # {}
      [] IsList(x) -> Len(x.v) > 0
      [] x.t = "text" -> Len(x.v) > 0
      [] OTHER -> TRUE

-----------------------------------------------------------------------------
(* models.py *)

ComponentType == {"pipe", "fixture", "connector", "vent", "valve", "fitting"}

RelationshipType ==
    {"CONNECTS_TO", "ABOVE", "BELOW", "CONTAINS", "FLOWS_TO", "SUPPORTS", "PARALLEL_TO"}

\* Enum(value): ValueError unless value is the value of a member
EnumOk(x, members) == x.t = "str" /\ x.v \in members

\* pydantic: a field annotated str
FieldStr(x) == IsStr(x)

\* pydantic: a field annotated Dict[str, Any]
FieldDict(x) == IsDict(x)

\* pydantic: a field annotated Optional[Dict[str, Any]]
FieldOptDict(x) == IsNull(x) \/ IsDict(x)

\* pydantic: a field annotated Optional[Dict[str, float]]
FieldOptFloatDict(x) ==
    IsNull(x) \/ (IsDict(x) /\ \A k \in DOMAIN x.v : IsNum(x.v[k]))

-----------------------------------------------------------------------------
(* SceneGraphService._convert_to_scene_graph *)

\* for x in <value>: a list yields its items, a dict its keys (strings); None and
\* numbers are not iterable (TypeError, outside the per-entry try)
Iterable(x) == IsList(x) \/ IsDict(x)

Items(x) ==
    IF IsList(x) THEN x.v
    ELSE [i \in 1..Cardinality(DOMAIN x.v) |-> Str("key")]

\* SceneGraphNode(...) of the components loop: the body of its try.  u is the
\* uuid drawn for the default id.  ok = FALSE: the body raised (AttributeError
\* of .get on a non-dict, ValueError of the enum, pydantic's ValidationError).
ConstructNode(comp_data, u) ==
    IF ~IsDict(comp_data)
    THEN [ok |-> FALSE]
    ELSE LET d == comp_data.v
             id == Get(d, "id", Uuid(u))
             type == Get(d, "type", Str("pipe"))
             name == Get(d, "name", Str("Unknown"))
             properties == Get(d, "properties", EmptyDict)
             position == Get(d, "position", Null)
             dimensions == Get(d, "dimensions", Null)
         IN  IF /\ EnumOk(type, ComponentType)
                /\ FieldStr(id)
                /\ FieldStr(name)
                /\ FieldDict(properties)
                /\ FieldOptFloatDict(position)
                /\ FieldOptFloatDict(dimensions)
             THEN [ok |-> TRUE,
                   node |-> [id |-> id, type |-> type.v, name |-> name,
                             properties |-> properties, position |-> position,
                             dimensions |-> dimensions]]
             ELSE [ok |-> FALSE]

\* One pass of the components loop without its try/except: a failing entry
\* propagates out of the build.  (A bug the code does not have.)
NodeOfUnguarded(comp_data, u) ==
    LET r == ConstructNode(comp_data, u)
    IN  [ok |-> r.ok, abort |-> ~r.ok, node |-> IF r.ok THEN r.node ELSE Null]

\* One pass of the components loop: try the construction, except: log and
\* continue.  abort = TRUE would be an exception leaving the loop.
NodeOf(comp_data, u) ==
    LET r == ConstructNode(comp_data, u)
    IN  [ok |-> r.ok, abort |-> FALSE, node |-> IF r.ok THEN r.node ELSE Null]

\* The components loop: entries left, uuid draws so far, nodes so far.
RECURSIVE ConvertNodes(_, _, _)
ConvertNodes(entries, u, acc) ==
    IF entries = <<>>
    THEN [nodes |-> acc, u |-> u, abort |-> FALSE]
    ELSE LET e == Head(entries)
             u2 == IF IsDict(e) THEN u + 1 ELSE u
             r == NodeOf(e, u2)
         IN  IF r.abort
             THEN [nodes |-> acc, u |-> u2, abort |-> TRUE]
             ELSE ConvertNodes(Tail(entries), u2,
                               IF r.ok THEN Append(acc, r.node) ELSE acc)

\* One pass of the relationships loop: try SceneGraphRelationship(...), except:
\* log and continue (ok = FALSE).  nodes, the components built so far, is not
\* consulted by the code.
RelationshipOf(rel_data, nodes) ==
    IF ~IsDict(rel_data)
    THEN [ok |-> FALSE]
    ELSE LET d == rel_data.v
             source_id == Get(d, "source_id", Null)
             target_id == Get(d, "target_id", Null)
             type == Get(d, "type", Str("CONNECTS_TO"))
             properties == Get(d, "properties", Null)
         IN  IF /\ EnumOk(type, RelationshipType)
                /\ FieldStr(source_id)
                /\ FieldStr(target_id)
                /\ FieldOptDict(properties)
             THEN [ok |-> TRUE,
                   rel |-> [source_id |-> source_id, target_id |-> target_id,
                            type |-> type.v, properties |-> properties]]
             ELSE [ok |-> FALSE]

RECURSIVE ConvertRelationships(_, _, _)
ConvertRelationships(entries, nodes, acc) ==
    IF entries = <<>>
    THEN acc
    ELSE LET r == RelationshipOf(Head(entries), nodes)
         IN  ConvertRelationships(Tail(entries), nodes,
                                  IF r.ok THEN Append(acc, r.rel) ELSE acc)

\* diagram_id = str(uuid.uuid4()), replaced by the extractor's id when the
\* candidate carries one.  (A bug the code does not have.)
DiagramIdFromCandidate(scene_data, u) ==
    IF "diagram_id" \in DOMAIN scene_data THEN scene_data["diagram_id"] ELSE Uuid(u)

\* diagram_id = str(uuid.uuid4())
DiagramId(scene_data, u) == Uuid(u)

\* _convert_to_scene_graph(scene_data, filename) with u uuid4() draws made before
\* the call.  scene_data is the function under the candidate dict.  The result
\* tells whether the call raised, the SceneGraph returned, the draws made, and
\* the candidate after the call (its metadata dict is updated in place).
ConvertToSceneGraph(scene_data, filename, u) ==
    LET diagram_id == DiagramId(scene_data, u + 1)
        components == Get(scene_data, "components", List(<<>>))
        relationships == Get(scene_data, "relationships", List(<<>>))
        metadata == Get(scene_data, "metadata", EmptyDict)
        title == Get(scene_data, "title", [t |-> "fstr", v |-> filename])
        Raise(draws, after) ==
            [raised |-> TRUE, graph |-> Null, u |-> draws, after |-> after]
    IN  IF ~Iterable(components) THEN Raise(u + 1, scene_data)
        ELSE
        LET cn == ConvertNodes(Items(components), u + 1, <<>>)
        IN  IF cn.abort THEN Raise(cn.u, scene_data)
            ELSE IF ~Iterable(relationships) THEN Raise(cn.u, scene_data)
            ELSE
            LET rels == ConvertRelationships(Items(relationships), cn.nodes, <<>>)
            IN  IF ~IsDict(metadata) THEN Raise(cn.u, scene_data)
                ELSE
                LET md == Put(Put(metadata.v, "source_filename", Str(filename)),
                              "processing_timestamp", Uuid(cn.u + 1))
                    after == IF "metadata" \in DOMAIN scene_data
                             THEN [scene_data EXCEPT !["metadata"] = Dict(md)]
                             ELSE scene_data
                IN  IF ~(IsNull(title) \/ IsStr(title))
                    THEN Raise(cn.u + 1, after)
                    ELSE [raised |-> FALSE,
                          graph |-> [diagram_id |-> diagram_id,
                                     title |-> title,
                                     nodes |-> cn.nodes,
                                     relationships |-> rels,
                                     metadata |-> md],
                          u |-> cn.u + 1,
                          after |-> after]

-----------------------------------------------------------------------------
(* The candidate graphs the extractor may return (json.loads of the response). *)

Filenames == {"a.png", "b.pdf"}

CompP1 == Dict([id |-> Str("c1"), type |-> Str("pipe"), name |-> Str("P1")])

CompV1 ==
    Dict([id |-> Str("c2"), type |-> Str("valve"), name |-> Str("V1"),
          properties |-> Dict([material |-> Str("pvc")]),
          position |-> Dict([x |-> Num(1), y |-> Num(2)])])

CompBadType == Dict([id |-> Str("c3"), type |-> Str("bogus"), name |-> Str("B1")])

CompNoId == Dict([type |-> Str("vent")])

CompNullProps ==
    Dict([id |-> Str("c4"), type |-> Str("pipe"), name |-> Str("P4"),
          properties |-> Null])

CompNonObject == Str("junk")

CompEntries == {CompP1, CompV1, CompBadType, CompNoId, CompNullProps, CompNonObject}

RelOk ==
    Dict([source_id |-> Str("c1"), target_id |-> Str("c2"), type |-> Str("CONNECTS_TO")])

RelUnknown ==
    Dict([source_id |-> Str("c1"), target_id |-> Str("zz"), type |-> Str("FLOWS_TO")])

RelBadType ==
    Dict([source_id |-> Str("c1"), target_id |-> Str("c2"), type |-> Str("NEAR")])

RelNoTarget == Dict([source_id |-> Str("c1")])

RelEntries == {RelOk, RelUnknown, RelBadType, RelNoTarget}

\* the sequences over S of length at most n
SeqsUpTo(S, n) == UNION {[1..k -> S] : k \in 0..n}

\* the dicts with the one key k bound to a value of xs, and the dict without k
Opt(k, xs) == {<<>>} \cup {k :> x : x \in xs}

Candidates ==
    {a @@ b @@ c @@ d @@ e :
        a \in Opt("components", {Null} \cup {List(s) : s \in SeqsUpTo(CompEntries, MaxComps)}),
        b \in Opt("relationships", {Null} \cup {List(s) : s \in SeqsUpTo(RelEntries, MaxRels)}),
        c \in Opt("metadata",
                  {Null, Dict([diagram_type |-> Str("plumbing"),
                               source_filename |-> Str("evil.exe"),
                               processing_timestamp |-> Str("then")])}),
        d \in Opt("title", {Str("Riser")}),
        e \in Opt("diagram_id", {Str("ext")})}

-----------------------------------------------------------------------------
(* State shared by the specifications. *)

NoBuild ==
    [n |-> 0, cand |-> <<>>, filename |-> "", raised |-> FALSE, graph |-> Null,
     after |-> <<>>]

EmptyGraphDb == [dnodes |-> <<>>, cnodes |-> <<>>, edges |-> <<>>, clock |-> 1]

\* pc "idle": no call yet; "run": inside an attempt, before statement number
\* step; "returned": the call returned result.  n counts the calls, attempt is
\* the loop variable, fails the attempts that failed, slept the time.sleep()
\* arguments so far, pre the graph when the call began, again whether the call
\* before this one was a store of the same SceneGraph that returned True.
IdleStore ==
    [pc |-> "idle", n |-> 0, gi |-> 0, attempt |-> 0, step |-> 1, fails |-> 0,
     slept |-> <<>>, pre |-> EmptyGraphDb, result |-> FALSE, again |-> FALSE]

\* pc "idle", then the reads of the call in order ("list", "info",
\* "components", "relationships"), "infer", and "done" with the outcome.
\* failed: a read of the store raised in this call; reply: what the inference
\* call gave; result: the dict returned to the caller.
IdleQuery ==
    [pc |-> "idle", arg |-> Null, diagram_id |-> Null, info |-> Null,
     components |-> <<>>, relationships |-> <<>>, calls |-> 0,
     outcome |-> "", context |-> Null, failed |-> FALSE, reply |-> Null,
     result |-> Null]
\* pc "idle", "primary" (before the first inference call), "fallback" (before
\* the second), "done" with the outcome.  calls are the inference calls made,
\* in order; first and second the content each returned.
IdleExtract ==
    [pc |-> "idle", calls |-> <<>>, first |-> Null, second |-> Null,
     outcome |-> "", extracted |-> <<>>]

\* pc "idle", "size", "prelude", "process", "analyze", "extracting", "storing",
\* "record", and "done" with the response (status, detail).  rejected: the
\* check that turned the file down; decoded: the bytes were handed to a decoder.
\* process_pdf: pc "idle", "open", "text" (before page number page_num of the
\* loop), "render", "close", "log", "done".  doc is the page texts of the PDF
\* under pdf_bytes (Null: not a PDF), is_open whether the document is open,
\* late whether the document was accessed when it was not open.
IdlePdf ==
    [pc |-> "idle", doc |-> Null, is_open |-> FALSE, page_num |-> 0,
     text_content |-> <<>>, img_base64 |-> Null, late |-> FALSE,
     outcome |-> "", result |-> Null]

\* pdf: the call of process_pdf.
IdleUpload ==
    [pc |-> "idle", filename |-> <<>>, size |-> 0, outcome |-> "", decoded |-> FALSE,
     rejected |-> "", raised |-> "", status |-> 0, detail |-> "", pdf |-> IdlePdf]

\* pc "idle" (in receive_text), "save_user", "status", "query", "querying",
\* "save_assistant", "answer", "error", "closed".  n counts the texts
\* received, transcript is the rows of the messages table, sent the messages
\* sent on the socket; log is what the handler did for the last text, in
\* order, io_failed whether a save or a send did not succeed for it, and
\* result what query_scene_graphs returned for it (Null when it raised).
IdleChat ==
    [pc |-> "idle", n |-> 0, data |-> "", diagram_id |-> Null, transcript |-> <<>>,
     sent |-> <<>>, log |-> <<>>, io_failed |-> FALSE, result |-> Null]

\* pc "idle", "probed" (db.health_check returned), "done" with the response.
IdleHealth ==
    [pc |-> "idle", probe |-> "", db_healthy |-> FALSE, propagated |-> FALSE,
     status |-> "", code |-> 0]

InitCommon ==
    /\ uuidCtr = 0
    /\ assigned = {}
    /\ lastBuild = NoBuild
    /\ built = <<>>
    /\ dnodes = <<>>
    /\ cnodes = <<>>
    /\ edges = <<>>
    /\ clock = 1
    /\ sc = IdleStore
    /\ q = IdleQuery
    /\ ex = IdleExtract
    /\ up = IdleUpload
    /\ hc = IdleHealth
    /\ par = <<>>
    /\ ws = IdleChat

\* What a call of _convert_to_scene_graph leaves behind.
Converted(n, scene_data, filename, r) ==
    [n |-> n, cand |-> scene_data, filename |-> filename, raised |-> r.raised,
     graph |-> r.graph, after |-> r.after]

\* A call of _convert_to_scene_graph on its own, on the candidate and filename
\* drawn in the initial state.
Convert ==
    /\ lastBuild.n = 0
    /\ LET r == ConvertToSceneGraph(lastBuild.cand, lastBuild.filename, uuidCtr)
       IN  /\ uuidCtr' = r.u
           /\ lastBuild' = Converted(1, lastBuild.cand, lastBuild.filename, r)
           /\ assigned' = IF r.raised THEN assigned
                          ELSE assigned \cup {r.graph.diagram_id}
    /\ UNCHANGED <<built, dnodes, cnodes, edges, clock, sc, q, ex, up, hc, par, ws>>

InitBuild ==
    /\ uuidCtr = 0
    /\ assigned = {}
    /\ lastBuild \in {[NoBuild EXCEPT !.cand = c, !.filename = f] :
                        c \in Candidates, f \in Filenames}
    /\ built = <<>>
    /\ dnodes = <<>>
    /\ cnodes = <<>>
    /\ edges = <<>>
    /\ clock = 1
    /\ sc = IdleStore
    /\ q = IdleQuery
    /\ ex = IdleExtract
    /\ up = IdleUpload
    /\ hc = IdleHealth
    /\ par = <<>>
    /\ ws = IdleChat

NextBuild == Convert

SpecBuild == InitBuild /\ [][NextBuild]_vars

-----------------------------------------------------------------------------
(* Claims about _convert_to_scene_graph, under SpecBuild. *)

CandComponents == Get(lastBuild.cand, "components", List(<<>>))
CandRelationships == Get(lastBuild.cand, "relationships", List(<<>>))
CandMetadata == Get(lastBuild.cand, "metadata", EmptyDict)
CandTitle == Get(lastBuild.cand, "title", Str("default"))

BuildReturned == lastBuild.n > 0 /\ ~lastBuild.raised

NodeIds(g) == {g.nodes[i].id : i \in 1..Len(g.nodes)}

\* C5: every relationship of a SceneGraph returned by build() has a source id
\* and a target id that are ids of components of that SceneGraph.
C5_RelationshipsReferenceOwnComponents ==
    BuildReturned =>
        \A i \in 1..Len(lastBuild.graph.relationships) :
            /\ lastBuild.graph.relationships[i].source_id \in NodeIds(lastBuild.graph)
            /\ lastBuild.graph.relationships[i].target_id \in NodeIds(lastBuild.graph)

\* A field of a candidate entry is present.
Has(e, k) == k \in DOMAIN e.v

\* A candidate component entry whose construction fails: a non-object, a type
\* tag outside the enumeration, or a wrongly shaped field.
MalformedComponent(e) ==
    \/ ~IsDict(e)
    \/ ("type" \in DOMAIN e.v /\ ~(e.v["type"].t = "str" /\ e.v["type"].v \in ComponentType))
    \/ (Has(e, "id") /\ ~IsStr(e.v["id"]))
    \/ (Has(e, "name") /\ ~IsStr(e.v["name"]))
    \/ (Has(e, "properties") /\ ~IsDict(e.v["properties"]))
    \/ (Has(e, "position") /\ ~FieldOptFloatDict(e.v["position"]))
    \/ (Has(e, "dimensions") /\ ~FieldOptFloatDict(e.v["dimensions"]))

\* A candidate relationship entry whose construction fails: a non-object, a
\* type tag outside the enumeration, a missing or wrongly shaped field.
MalformedRelationship(e) ==
    \/ ~IsDict(e)
    \/ ("type" \in DOMAIN e.v /\ ~(e.v["type"].t = "str" /\ e.v["type"].v \in RelationshipType))
    \/ "source_id" \notin DOMAIN e.v
    \/ "target_id" \notin DOMAIN e.v
    \/ (Has(e, "source_id") /\ ~IsStr(e.v["source_id"]))
    \/ (Has(e, "target_id") /\ ~IsStr(e.v["target_id"]))
    \/ (Has(e, "properties") /\ ~FieldOptDict(e.v["properties"]))

InvalidTypeTag(e) ==
    IsDict(e) /\ "type" \in DOMAIN e.v
    /\ ~(e.v["type"].t = "str" /\ e.v["type"].v \in ComponentType)

MalformedComponents(seq) == Cardinality({i \in 1..Len(seq) : MalformedComponent(seq[i])})
MalformedRelationships(seq) == Cardinality({i \in 1..Len(seq) : MalformedRelationship(seq[i])})
InvalidTypeTags(seq) == Cardinality({i \in 1..Len(seq) : InvalidTypeTag(seq[i])})

\* C6: build() drops exactly the component and relationship entries whose
\* construction fails and keeps every other entry; with one invalid type tag
\* among N otherwise sound components it yields N-1; the result never has more
\* entries than the candidate; build() does not raise because of an entry.
C6_MalformedEntriesDropped ==
    lastBuild.n > 0 =>
        /\ lastBuild.raised =>
              \/ ~Iterable(CandComponents)
              \/ ~Iterable(CandRelationships)
              \/ ~IsDict(CandMetadata)
              \/ ~(IsNull(CandTitle) \/ IsStr(CandTitle))
        /\ ~lastBuild.raised =>
              LET comps == Items(CandComponents)
                  rels == Items(CandRelationships)
                  g == lastBuild.graph
              IN  /\ Len(g.nodes) <= Len(comps)
                  /\ Len(g.relationships) <= Len(rels)
                  /\ Len(g.nodes) = Len(comps) - MalformedComponents(comps)
                  /\ Len(g.relationships) = Len(rels) - MalformedRelationships(rels)
                  /\ \A i \in 1..Len(g.nodes) : g.nodes[i].type \in ComponentType
                  /\ \A i \in 1..Len(g.relationships) :
                        g.relationships[i].type \in RelationshipType
                  /\ \A i \in 1..Len(comps) :
                        (~MalformedComponent(comps[i]) /\ "id" \in DOMAIN comps[i].v)
                            => comps[i].v["id"] \in NodeIds(g)
                  /\ (InvalidTypeTags(comps) = 1
                      /\ MalformedComponents(comps) = 1)
                        => Len(g.nodes) = Len(comps) - 1

\* C6 witness: two candidate components, one with an invalid type tag, built
\* into a SceneGraph of one component.
C6_Witness ==
    /\ BuildReturned
    /\ IsList(CandComponents)
    /\ Len(CandComponents.v) = 2
    /\ InvalidTypeTags(CandComponents.v) = 1
    /\ Len(lastBuild.graph.nodes) = 1

-----------------------------------------------------------------------------
(* Neo4jDatabase.store_scene_graph: the Cypher statements and their effect on  *)
(* the graph.  A node is its position in dnodes / cnodes; an edge names its    *)
(* end nodes by position ("D": from a Diagram node, "C": from a Component).    *)

max_retries == 3

\* str(value) for a dict or a list, the value itself otherwise
Flatten(x) == IF IsDict(x) \/ IsList(x) THEN [t |-> "repr", v |-> x] ELSE x

\* flattened.get(key, '') over the flattened copy of the dict under d
FlatGet(d, k) == IF k \in DOMAIN d THEN Flatten(d[k]) ELSE Str("")

\* the parameters of the Diagram statement
DiagramParams(g) ==
    [title |-> g.title,
     diagram_type |-> FlatGet(g.metadata, "diagram_type"),
     source_filename |-> FlatGet(g.metadata, "source_filename"),
     processing_timestamp |-> FlatGet(g.metadata, "processing_timestamp"),
     scale |-> FlatGet(g.metadata, "scale"),
     building_zone |-> FlatGet(g.metadata, "building_zone"),
     floor_level |-> FlatGet(g.metadata, "floor_level")]

\* node.position.get(k, 0) if node.position else 0
CoordOf(dict, k) == IF Truthy(dict) THEN Get(dict.v, k, Num(0)) ELSE Num(0)

\* the parameters of a Component statement, but id and diagram_id
ComponentParams(node) ==
    LET props == IF Truthy(node.properties) THEN node.properties.v ELSE <<>>
    IN  [type |-> node.type,
         name |-> node.name,
         material |-> FlatGet(props, "material"),
         diameter |-> FlatGet(props, "diameter"),
         length |-> FlatGet(props, "length"),
         flow_direction |-> FlatGet(props, "flow_direction"),
         position_x |-> CoordOf(node.position, "x"),
         position_y |-> CoordOf(node.position, "y"),
         width |-> CoordOf(node.dimensions, "width"),
         height |-> CoordOf(node.dimensions, "height")]

\* the parameters of a relationship statement, but the ids and the type
RelationshipParams(rel) ==
    LET props == IF Truthy(rel.properties) THEN rel.properties.v ELSE <<>>
    IN  [distance |-> FlatGet(props, "distance"), angle |-> FlatGet(props, "angle")]

\* A match that sees no committed node: every MERGE creates.  (A bug the code
\* does not have.)
MatchingNone(nodes, id) == {}

\* the positions of the nodes with the given id
Matching(nodes, id) == {i \in 1..Len(nodes) : nodes[i].id = id}

\* CREATE in place of MERGE: a new node whatever the graph holds.  (A bug the
\* code does not have.)
CreateNode(nodes, id, fields) == Append(nodes, fields @@ [id |-> id])

\* MERGE (n {id: $id}) SET n.<field> = ...: every node with the id gets the
\* fields; a node is created when there is none.
MergeNode(nodes, id, fields) ==
    IF Matching(nodes, id) = {}
    THEN Append(nodes, fields @@ [id |-> id])
    ELSE [i \in 1..Len(nodes) |-> IF nodes[i].id = id THEN fields @@ nodes[i] ELSE nodes[i]]

SameEdge(e, sk, s, d, type) == e.sk = sk /\ e.s = s /\ e.d = d /\ e.type = type

\* CREATE in place of MERGE: a new edge whatever the graph holds.  (A bug the
\* code does not have.)
CreateEdge(es, sk, s, d, type, props) ==
    Append(es, props @@ [sk |-> sk, s |-> s, d |-> d, type |-> type])

\* MERGE (s)-[r:TYPE]->(d) SET r.<prop> = ... for one bound pair of nodes
MergeEdge(es, sk, s, d, type, props) ==
    IF \E i \in 1..Len(es) : SameEdge(es[i], sk, s, d, type)
    THEN [i \in 1..Len(es) |->
            IF SameEdge(es[i], sk, s, d, type) THEN props @@ es[i] ELSE es[i]]
    ELSE Append(es, props @@ [sk |-> sk, s |-> s, d |-> d, type |-> type])

\* the same for every bound pair (row) of the statement, in row order
RECURSIVE MergeEdges(_, _, _, _, _)
MergeEdges(es, sk, pairs, type, props) ==
    IF pairs = {}
    THEN es
    ELSE LET p == CHOOSE x \in pairs :
                    \A y \in pairs : x[1] < y[1] \/ (x[1] = y[1] /\ x[2] <= y[2])
         IN  MergeEdges(MergeEdge(es, sk, p[1], p[2], type, props), sk,
                        pairs \ {p}, type, props)

NoProps == [distance |-> Null, angle |-> Null]

\* The statements store_scene_graph runs for g in one attempt, in order.
Statements(g) ==
    <<[kind |-> "diagram"]>>
    \o [i \in 1..Len(g.nodes) |-> [kind |-> "component", node |-> g.nodes[i]]]
    \o [i \in 1..Len(g.relationships) |-> [kind |-> "relationship", rel |-> g.relationships[i]]]

\* The graph as a record, to pass it around.
Graph(dn, cn, es, now) == [dnodes |-> dn, cnodes |-> cn, edges |-> es, clock |-> now]

\* datetime() of the Diagram statement: later than the created_at of every
\* other Diagram node.  created_at is read only through ORDER BY, so the least
\* such time stands for all of them.
DateTime(db, id) ==
    LET others == {db.dnodes[i].created_at :
                      i \in {j \in 1..Len(db.dnodes) : db.dnodes[j].id # id}}
    IN  IF others = {} THEN 1 ELSE 1 + (CHOOSE x \in others : \A y \in others : x >= y)

\* The effect of one committed statement of the store of g on the graph db.
Execute(db, g, stmt) ==
    CASE stmt.kind = "diagram" ->
            [db EXCEPT
                !.dnodes = MergeNode(db.dnodes, g.diagram_id,
                                     DiagramParams(g) @@ [created_at |-> DateTime(db, g.diagram_id)]),
                !.clock = DateTime(db, g.diagram_id) + 1]
      [] stmt.kind = "component" ->
            LET cn == MergeNode(db.cnodes, stmt.node.id, ComponentParams(stmt.node))
                rows == Matching(db.dnodes, g.diagram_id) \X Matching(cn, stmt.node.id)
            IN  [db EXCEPT
                    !.cnodes = cn,
                    !.edges = MergeEdges(db.edges, "D", rows, "CONTAINS", NoProps)]
      [] stmt.kind = "relationship" ->
            LET rows == Matching(db.cnodes, stmt.rel.source_id)
                            \X Matching(db.cnodes, stmt.rel.target_id)
            IN  [db EXCEPT
                    !.edges = MergeEdges(db.edges, "C", rows, stmt.rel.type,
                                         RelationshipParams(stmt.rel))]

\* One attempt of store_scene_graph(g) in which no statement fails.
RECURSIVE ExecuteAll(_, _, _)
ExecuteAll(db, g, stmts) ==
    IF stmts = <<>> THEN db
    ELSE ExecuteAll(Execute(db, g, Head(stmts)), g, Tail(stmts))

-----------------------------------------------------------------------------
(* store_scene_graph as a process: one step per statement sent to Neo4j. *)

DB == Graph(dnodes, cnodes, edges, clock)

SetDB(db) ==
    /\ dnodes' = db.dnodes
    /\ cnodes' = db.cnodes
    /\ edges' = db.edges
    /\ clock' = db.clock

BeginStore(gi) ==
    [pc |-> "run", n |-> sc.n + 1, gi |-> gi, attempt |-> 0, step |-> 1,
     fails |-> 0, slept |-> <<>>, pre |-> DB, result |-> FALSE,
     again |-> (sc.pc = "returned" /\ sc.result /\ sc.gi = gi)]

\* No operation of the sequential specification is under way.
Quiet == sc.pc # "run" /\ q.pc = "idle" /\ hc.pc = "idle"

\* create_scene_graph_from_file from the build on: _convert_to_scene_graph, then
\* the call of db.store_scene_graph on the SceneGraph (a raise of the build
\* ends the pipeline).
CreateSceneGraph(scene_data, filename) ==
    /\ Quiet
    /\ lastBuild.n < MaxBuilds
    /\ sc.n < MaxStores
    /\ LET r == ConvertToSceneGraph(scene_data, filename, uuidCtr)
       IN  /\ uuidCtr' = r.u
           /\ lastBuild' = Converted(lastBuild.n + 1, scene_data, filename, r)
           /\ IF r.raised
              THEN UNCHANGED <<assigned, built, sc>>
              ELSE /\ assigned' = assigned \cup {r.graph.diagram_id}
                   /\ built' = Append(built, r.graph)
                   /\ sc' = BeginStore(Len(built) + 1)
    /\ UNCHANGED <<dnodes, cnodes, edges, clock, q, ex, up, hc, par, ws>>

\* db.store_scene_graph(g) called again on a SceneGraph built before.
StoreAgain(gi) ==
    /\ Quiet
    /\ gi \in 1..Len(built)
    /\ sc.n < MaxStores
    /\ sc' = BeginStore(gi)
    /\ UNCHANGED <<uuidCtr, assigned, lastBuild, built, dnodes, cnodes, edges, clock, q, ex, up, hc, par, ws>>

CurrentStatement == Statements(built[sc.gi])[sc.step]

\* The next statement of the attempt runs and commits; after the last one the
\* call returns True.
StoreStatement ==
    /\ sc.pc = "run"
    /\ SetDB(Execute(DB, built[sc.gi], CurrentStatement))
    /\ IF sc.step = Len(Statements(built[sc.gi]))
       THEN sc' = [sc EXCEPT !.pc = "returned", !.result = TRUE]
       ELSE sc' = [sc EXCEPT !.step = sc.step + 1]
    /\ UNCHANGED <<uuidCtr, assigned, lastBuild, built, q, ex, up, hc, par, ws>>

\* The except branch never retrying.  (A bug the code does not have.)
OnFailureGiveUp(attempt) == "return_false"

\* except Exception: retry while attempt < max_retries - 1, else return False
OnFailure(attempt) == IF attempt < max_retries - 1 THEN "retry" ELSE "return_false"

\* A sleep of the same length before every retry.  (A bug the code does not
\* have.)
BackoffConstant(attempt) == 1

\* time.sleep(2 ** attempt)
Backoff(attempt) == 2 ^ attempt

\* The next statement of the attempt raises (or opening the session does, before
\* the first one).  The statement is its own transaction: it either had no
\* effect, or it committed and the failure was in the reply (applied).
StoreFailure(applied) ==
    /\ sc.pc = "run"
    /\ SetDB(IF applied THEN Execute(DB, built[sc.gi], CurrentStatement) ELSE DB)
    /\ IF OnFailure(sc.attempt) = "retry"
       THEN sc' = [sc EXCEPT !.attempt = sc.attempt + 1, !.step = 1,
                            !.fails = sc.fails + 1,
                            !.slept = Append(sc.slept, Backoff(sc.attempt))]
       ELSE sc' = [sc EXCEPT !.pc = "returned", !.result = FALSE,
                            !.fails = sc.fails + 1]
    /\ UNCHANGED <<uuidCtr, assigned, lastBuild, built, q, ex, up, hc, par, ws>>

-----------------------------------------------------------------------------
(* The reads: Neo4jDatabase.get_all_diagrams / get_diagram_info and the two    *)
(* queries of SceneGraphService._get_complete_scene_graph.                     *)

\* the positions of the Diagram nodes by created_at, latest first
RECURSIVE OrderDesc(_, _)
OrderDesc(seq, left) ==
    IF left = {}
    THEN <<>>
    ELSE LET i == CHOOSE x \in left :
                    \A y \in left : seq[x].created_at > seq[y].created_at
                                    \/ (seq[x].created_at = seq[y].created_at /\ x <= y)
         IN  <<i>> \o OrderDesc(seq, left \ {i})

\* get_all_diagrams with the order of its rows reversed.  (A bug the code does
\* not have.)
DiagramOrderAsc(db) ==
    LET rows == OrderDesc(db.dnodes, 1..Len(db.dnodes))
    IN  [i \in 1..Len(rows) |-> rows[Len(rows) + 1 - i]]

\* ORDER BY d.created_at DESC over the Diagram nodes
DiagramOrder(db) == OrderDesc(db.dnodes, 1..Len(db.dnodes))

\* count(c) of OPTIONAL MATCH (d)-[:CONTAINS]->(c:Component) for Diagram node j
ComponentCount(db, j) ==
    Cardinality({i \in 1..Len(db.edges) :
                    db.edges[i].sk = "D" /\ db.edges[i].s = j /\ db.edges[i].type = "CONTAINS"})

\* get_all_diagrams() when the read succeeds: one row per Diagram node
GetAllDiagrams(db) ==
    LET order == DiagramOrder(db)
    IN  [k \in 1..Len(order) |->
            [diagram_id |-> db.dnodes[order[k]].id,
             title |-> db.dnodes[order[k]].title,
             created_at |-> db.dnodes[order[k]].created_at,
             component_count |-> ComponentCount(db, order[k])]]

\* get_diagram_info(diagram_id) when the read succeeds: the single row of the
\* aggregation (one row per distinct title; d.metadata is a property no
\* statement sets), None without a row or with several.
GetDiagramInfo(db, diagram_id) ==
    LET ds == Matching(db.dnodes, diagram_id)
    IN  IF ds = {} \/ Cardinality({db.dnodes[j].title : j \in ds}) > 1
        THEN Null
        ELSE LET j == CHOOSE x \in ds : TRUE
             IN  Dict([title |-> db.dnodes[j].title,
                       metadata |-> Null,
                       component_count |->
                           Num(Cardinality({i \in 1..Len(db.edges) :
                                db.edges[i].sk = "D" /\ db.edges[i].s \in ds
                                /\ db.edges[i].type = "CONTAINS"}))])

\* the pattern without its {id: $diagram_id}: the CONTAINS edges of every
\* Diagram.  (A bug the code does not have.)
OwnsAny(db, diagram_id, e) == e.sk = "D" /\ e.type = "CONTAINS"

\* the edges (d:Diagram {id})-[:CONTAINS]->(c:Component)
Owns(db, diagram_id, e) ==
    e.sk = "D" /\ e.type = "CONTAINS" /\ db.dnodes[e.s].id = diagram_id

ComponentRow(c) ==
    [id |-> c.id, type |-> c.type, name |-> c.name, material |-> c.material,
     diameter |-> c.diameter, length |-> c.length,
     flow_direction |-> c.flow_direction, position_x |-> c.position_x,
     position_y |-> c.position_y, width |-> c.width, height |-> c.height]

\* the component query of _get_complete_scene_graph: one row per CONTAINS edge
\* leaving a Diagram node with the id
GetComponents(db, diagram_id) ==
    LET own == SelectSeq(db.edges, LAMBDA e : Owns(db, diagram_id, e))
    IN  [k \in 1..Len(own) |-> ComponentRow(db.cnodes[own[k].d])]

QueriedTypes ==
    {"CONNECTS_TO", "FLOWS_TO", "ABOVE", "BELOW", "PARALLEL_TO", "SUPPORTS", "CONTAINS"}

\* The query without its second MATCH: the edges leaving a Component the
\* Diagram owns, whoever owns their target.  (A bug the code does not have.)
GetRelationshipsFromOwned(db, diagram_id) ==
    LET Hit(e) ==
            /\ e.sk = "C"
            /\ e.type \in QueriedTypes
            /\ \E i \in 1..Len(db.edges) :
                   Owns(db, diagram_id, db.edges[i]) /\ db.edges[i].d = e.s
        rs == SelectSeq(db.edges, Hit)
    IN  [k \in 1..Len(rs) |->
            [source_id |-> db.cnodes[rs[k].s].id,
             target_id |-> db.cnodes[rs[k].d].id,
             relationship_type |-> rs[k].type,
             distance |-> rs[k].distance,
             angle |-> rs[k].angle]]

\* the relationship query: the edges between two Components that one Diagram
\* node with the id owns, of a type in the WHERE list
GetRelationships(db, diagram_id) ==
    LET OwnedBy(j, c) ==
            \E i \in 1..Len(db.edges) :
                /\ Owns(db, diagram_id, db.edges[i])
                /\ db.edges[i].s = j
                /\ db.edges[i].d = c
        Hit(e) ==
            /\ e.sk = "C"
            /\ e.type \in QueriedTypes
            /\ \E j \in 1..Len(db.dnodes) : OwnedBy(j, e.s) /\ OwnedBy(j, e.d)
        rs == SelectSeq(db.edges, Hit)
    IN  [k \in 1..Len(rs) |->
            [source_id |-> db.cnodes[rs[k].s].id,
             target_id |-> db.cnodes[rs[k].d].id,
             relationship_type |-> rs[k].type,
             distance |-> rs[k].distance,
             angle |-> rs[k].angle]]

\* graph_data of _get_complete_scene_graph.  info is the dict of
\* get_diagram_info: it has no key but title, metadata and component_count.
GraphData(diagram_id, info, components, relationships) ==
    [diagram |-> [id |-> diagram_id,
                  title |-> Get(info.v, "title", Str("Unknown")),
                  diagram_type |-> Get(info.v, "diagram_type", Str("")),
                  source_filename |-> Get(info.v, "source_filename", Str("")),
                  building_zone |-> Get(info.v, "building_zone", Str("")),
                  floor_level |-> Get(info.v, "floor_level", Str("")),
                  scale |-> Get(info.v, "scale", Str(""))],
     components |-> components,
     relationships |-> relationships,
     summary |-> [total_components |-> Len(components),
                  total_relationships |-> Len(relationships)]]

-----------------------------------------------------------------------------
(* SceneGraphService.query_scene_graphs as a process: one step per read of the *)
(* store and one for the inference call.                                        *)

QueryDone(outcome) == [q EXCEPT !.pc = "done", !.outcome = outcome]

\* query_scene_graphs(question, diagram_id) is called.
QueryBegin(arg) ==
    /\ Quiet
    /\ q' = [IdleQuery EXCEPT !.pc = IF Truthy(arg) THEN "info" ELSE "list",
                              !.arg = arg, !.diagram_id = arg]
    /\ UNCHANGED <<uuidCtr, assigned, lastBuild, built, dnodes, cnodes, edges, clock, sc, ex, up, hc, par, ws>>

\* db.get_all_diagrams(): [] when the read fails; ValueError without a row
QueryList(fails) ==
    /\ q.pc = "list"
    /\ LET diagrams == IF fails THEN <<>> ELSE GetAllDiagrams(DB)
       IN  q' = IF diagrams = <<>>
                THEN [QueryDone("NoDiagramsFound") EXCEPT !.failed = fails]
                ELSE [q EXCEPT !.pc = "info", !.diagram_id = diagrams[1].diagram_id]
    /\ UNCHANGED <<uuidCtr, assigned, lastBuild, built, dnodes, cnodes, edges, clock, sc, ex, up, hc, par, ws>>

\* db.get_diagram_info(diagram_id): None when the read fails
QueryInfo(fails) ==
    /\ q.pc = "info"
    /\ LET info == IF fails THEN Null ELSE GetDiagramInfo(DB, q.diagram_id)
       IN  q' = IF ~Truthy(info)
                THEN [QueryDone("DiagramNotFound") EXCEPT !.failed = fails]
                ELSE [q EXCEPT !.pc = "components", !.info = info]
    /\ UNCHANGED <<uuidCtr, assigned, lastBuild, built, dnodes, cnodes, edges, clock, sc, ex, up, hc, par, ws>>

\* the component query; execute_cypher raises when the read fails, and
\* _get_complete_scene_graph returns None
QueryComponents(fails) ==
    /\ q.pc = "components"
    /\ q' = IF fails
            THEN [QueryDone("DiagramNotFound") EXCEPT !.failed = TRUE]
            ELSE [q EXCEPT !.pc = "relationships",
                           !.components = GetComponents(DB, q.diagram_id)]
    /\ UNCHANGED <<uuidCtr, assigned, lastBuild, built, dnodes, cnodes, edges, clock, sc, ex, up, hc, par, ws>>

\* the relationship query, likewise; then graph_data is put together
QueryRelationships(fails) ==
    /\ q.pc = "relationships"
    /\ q' = IF fails
            THEN [QueryDone("DiagramNotFound") EXCEPT !.failed = TRUE]
            ELSE LET rels == GetRelationships(DB, q.diagram_id)
                 IN  [q EXCEPT !.pc = "infer", !.relationships = rels,
                               !.context = GraphData(q.diagram_id, q.info,
                                                     q.components, rels)]
    /\ UNCHANGED <<uuidCtr, assigned, lastBuild, built, dnodes, cnodes, edges, clock, sc, ex, up, hc, par, ws>>

\* what chat.completions.create gives the question: an exception, or a
\* content that is None or a text
Answers == {[t |-> "raise"], Null, Str("A1"), Str("A2")}

\* The dict with an answer of its own instead of the content.  (A bug the code
\* does not have.)
AnswerCanned(content) == [answer |-> Str("A1"), confidence |-> "0.9"]

\* {"answer": content, "confidence": 0.9}
AnswerOf(content) == [answer |-> content, confidence |-> "0.9"]

\* answer_question_with_graph_context: the one inference call; it raises or
\* returns the answer with confidence 0.9
QueryInfer(resp) ==
    /\ q.pc = "infer"
    /\ q' = IF resp.t = "raise"
            THEN [q EXCEPT !.pc = "done", !.calls = q.calls + 1, !.reply = resp,
                           !.outcome = "InferenceFailed"]
            ELSE [q EXCEPT !.pc = "done", !.calls = q.calls + 1, !.reply = resp,
                           !.outcome = "answered", !.result = AnswerOf(resp)]
    /\ UNCHANGED <<uuidCtr, assigned, lastBuild, built, dnodes, cnodes, edges, clock, sc, ex, up, hc, par, ws>>

\* query_scene_graphs returns or raises to its caller.
QueryReturn ==
    /\ q.pc = "done"
    /\ q' = IdleQuery
    /\ UNCHANGED <<uuidCtr, assigned, lastBuild, built, dnodes, cnodes, edges, clock, sc, ex, up, hc, par, ws>>

-----------------------------------------------------------------------------
(* Neo4jDatabase.health_check and the /health endpoint. *)

\* what session.run("RETURN 1") and result.single() do: a record, no record,
\* or an exception (no driver, no connection, a failed query)
Probes == {"row", "no_row", "raise"}

\* health_check returning True from its except branch.  (A bug the code does
\* not have.)
HealthCheckFailOpen(probe) == probe # "no_row"

\* try: return result.single() is not None; except Exception: return False
HealthCheck(probe) == probe = "row"

\* GET /health arrives.
HealthBegin ==
    /\ Quiet
    /\ hc' = [IdleHealth EXCEPT !.pc = "probe"]
    /\ UNCHANGED <<uuidCtr, assigned, lastBuild, built, dnodes, cnodes, edges, clock, sc, q, ex, up, par, ws>>

\* db_healthy = db.health_check()
HealthProbe(probe) ==
    /\ hc.pc = "probe"
    /\ hc' = [hc EXCEPT !.pc = "probed", !.probe = probe,
                        !.db_healthy = HealthCheck(probe)]
    /\ UNCHANGED <<uuidCtr, assigned, lastBuild, built, dnodes, cnodes, edges, clock, sc, q, ex, up, par, ws>>

\* openai_healthy = bool(Config.OPENAI_API_KEY); the status of the response
HealthReport(openai_healthy) ==
    /\ hc.pc = "probed"
    /\ hc' = [hc EXCEPT !.pc = "done", !.code = 200,
                        !.status = IF hc.db_healthy /\ openai_healthy
                                   THEN "healthy" ELSE "unhealthy"]
    /\ UNCHANGED <<uuidCtr, assigned, lastBuild, built, dnodes, cnodes, edges, clock, sc, q, ex, up, par, ws>>

\* The response is sent.
HealthReturn ==
    /\ hc.pc = "done"
    /\ hc' = IdleHealth
    /\ UNCHANGED <<uuidCtr, assigned, lastBuild, built, dnodes, cnodes, edges, clock, sc, q, ex, up, par, ws>>

-----------------------------------------------------------------------------
(* The sequential specification: uploads, repeated stores and queries, one     *)
(* operation at a time.                                                         *)

\* c1 and c2, joined
CandRiser ==
    [title |-> Str("Riser"),
     components |-> List(<<CompP1, CompV1>>),
     relationships |-> List(<<RelOk>>),
     metadata |-> Dict([diagram_type |-> Str("plumbing"), scale |-> Str("1:50")])]

\* a component with the id of one of CandRiser and another name, a relationship
\* to a component the candidate does not have, and extractor-supplied ids
CandSink ==
    [id |-> Str("ext"),
     diagram_id |-> Str("ext"),
     components |-> List(<<Dict([id |-> Str("c1"), type |-> Str("fixture"),
                                 name |-> Str("Sink")])>>),
     relationships |-> List(<<Dict([source_id |-> Str("c1"), target_id |-> Str("c2"),
                                    type |-> Str("CONTAINS")])>>)]

\* the build raises on it: components is null
CandNull == [components |-> Null]

StoreCandidates == {CandRiser, CandSink, <<>>, CandNull}

QueryArgs == {Null, Str("nope")} \cup assigned

Init == InitCommon

Next ==
    \/ \E c \in StoreCandidates : CreateSceneGraph(c, "a.png")
    \/ \E gi \in 1..MaxBuilds : StoreAgain(gi)
    \/ StoreStatement
    \/ \E applied \in BOOLEAN : StoreFailure(applied)
    \/ \E arg \in QueryArgs : QueryBegin(arg)
    \/ \E fails \in BOOLEAN : QueryList(fails)
    \/ \E fails \in BOOLEAN : QueryInfo(fails)
    \/ \E fails \in BOOLEAN : QueryComponents(fails)
    \/ \E fails \in BOOLEAN : QueryRelationships(fails)
    \/ \E resp \in Answers : QueryInfer(resp)
    \/ QueryReturn
    \/ HealthBegin
    \/ \E probe \in Probes : HealthProbe(probe)
    \/ \E openai_healthy \in BOOLEAN : HealthReport(openai_healthy)
    \/ HealthReturn

Spec == Init /\ [][Next]_vars

-----------------------------------------------------------------------------
(* Claims about store_scene_graph and the reads, under Spec. *)

StoreReturned == sc.pc = "returned"
Stored == built[sc.gi]

DiagramNodes(db, id) == Cardinality(Matching(db.dnodes, id))

EdgeCount(db, sk) == Cardinality({i \in 1..Len(db.edges) : db.edges[i].sk = sk})

\* C1: store(g) called again right after a successful store(g) leaves the
\* number of Diagram nodes with g's id, of Component nodes, of CONTAINS edges
\* and of typed relationship edges unchanged.
C1_StoreIdempotent ==
    (StoreReturned /\ sc.result /\ sc.again) =>
        /\ DiagramNodes(DB, Stored.diagram_id) = DiagramNodes(sc.pre, Stored.diagram_id)
        /\ DiagramNodes(DB, Stored.diagram_id) = 1
        /\ Len(dnodes) = Len(sc.pre.dnodes)
        /\ Len(cnodes) = Len(sc.pre.cnodes)
        /\ EdgeCount(DB, "D") = EdgeCount(sc.pre, "D")
        /\ EdgeCount(DB, "C") = EdgeCount(sc.pre, "C")

\* C1 witness: a second store of a SceneGraph with components and a
\* relationship edge has returned True.
C1_Witness ==
    /\ StoreReturned /\ sc.result /\ sc.again
    /\ Len(Stored.nodes) = 2
    /\ EdgeCount(DB, "C") >= 1

\* What a reader can tell of the graph: created_at only through the order it
\* gives the diagrams.
Persisted(db) ==
    [diagrams |-> [i \in 1..Len(db.dnodes) |-> [db.dnodes[i] EXCEPT !.created_at = 0]],
     order |-> DiagramOrder(db),
     cnodes |-> db.cnodes,
     edges |-> db.edges]

\* C2: when the first two attempts fail, at any statement, and the third
\* succeeds, store(g) returns True and the graph is the one a single
\* successful attempt makes of the graph the call began with.
C2_RetryMatchesSingleWrite ==
    (StoreReturned /\ sc.fails = 2) =>
        /\ sc.result
        /\ Persisted(DB) = Persisted(ExecuteAll(sc.pre, Stored, Statements(Stored)))

\* C2 witness: a store of two components and a relationship returned True on
\* its third attempt.
C2_Witness ==
    /\ StoreReturned /\ sc.fails = 2 /\ sc.result
    /\ Len(Stored.nodes) = 2
    /\ Len(Stored.relationships) = 1

\* C3: a failure in attempt 1 or 2 always starts another attempt, there is no
\* 4th attempt, and after 3 failed attempts store() returns False.
C3_RetryCeiling ==
    /\ sc.pc \in {"idle", "run", "returned"}
    /\ sc.attempt \in 0..2
    /\ sc.fails <= 3
    /\ sc.pc = "run" => sc.fails = sc.attempt
    /\ StoreReturned => /\ sc.result <=> sc.fails < 3
                        /\ sc.result => sc.fails = sc.attempt
                        /\ ~sc.result => sc.fails = 3 /\ sc.attempt = 2

\* C3 witness: a store has returned False after three failed attempts.
C3_Witness == StoreReturned /\ ~sc.result /\ sc.fails = 3

UniqueComponentIds(g) ==
    \A i, j \in 1..Len(g.nodes) : g.nodes[i].id = g.nodes[j].id => i = j

RowIds(rows) == {rows[k].id : k \in 1..Len(rows)}

\* C4: after store(g) succeeded, for g with unique component ids, the component
\* query for g's diagram id returns the ids of g's components, no other and
\* each once, and these are the components a query for g's diagram id passes
\* to inference.
C4_RoundTrip ==
    (StoreReturned /\ sc.result /\ UniqueComponentIds(Stored)) =>
        LET rows == GetComponents(DB, Stored.diagram_id)
        IN  /\ RowIds(rows) = NodeIds(Stored)
            /\ Len(rows) = Len(Stored.nodes)
            /\ (q.pc = "done" /\ q.outcome = "answered" /\ q.diagram_id = Stored.diagram_id)
                  => /\ RowIds(q.context.components) = NodeIds(Stored)
                     /\ Len(q.context.components) = Len(Stored.nodes)

\* C4 witness: the second diagram stored has a component, the store holds
\* components of the diagram stored before it, and a query for the second
\* diagram's id was answered.
C4_Witness ==
    /\ StoreReturned /\ sc.result
    /\ q.pc = "done" /\ q.outcome = "answered" /\ q.arg = Stored.diagram_id
    /\ sc.gi = 2
    /\ Len(Stored.nodes) = 1
    /\ Len(built[1].nodes) = 2
    /\ Len(dnodes) = 2
    /\ Len(cnodes) = 2

\* C7: a build assigns a diagram id drawn in that call, whatever id the
\* candidate carries, which no SceneGraph built before has; and no step
\* changes the diagram id of a SceneGraph built before.
C7_FreshDiagramId ==
    [][/\ Len(built') >= Len(built)
       /\ \A i \in 1..Len(built) : built'[i].diagram_id = built[i].diagram_id
       /\ Len(built') > Len(built) =>
            LET g == built'[Len(built')]
            IN  /\ g.diagram_id.t = "uuid"
                /\ g.diagram_id.v > uuidCtr
                /\ g.diagram_id \notin assigned
                /\ \A i \in 1..Len(built) : built[i].diagram_id # g.diagram_id]_vars

\* C7 witness: two SceneGraphs are built, the second from a candidate carrying
\* a diagram_id, and it has been stored and queried.
C7_Witness ==
    /\ Len(built) = 2
    /\ "diagram_id" \in DOMAIN lastBuild.cand
    /\ ~lastBuild.raised
    /\ StoreReturned /\ sc.gi = 2
    /\ q.pc = "done" /\ q.outcome = "answered"

\* the Diagram node with the latest created_at
MostRecent(db) ==
    CHOOSE j \in 1..Len(db.dnodes) :
        \A k \in 1..Len(db.dnodes) : db.dnodes[j].created_at >= db.dnodes[k].created_at

C10_WitnessEmpty ==
    q.pc = "done" /\ ~Truthy(q.arg) /\ dnodes = <<>> /\ q.outcome = "NoDiagramsFound"

-----------------------------------------------------------------------------
(* OpenAIClient.analyze_diagram_with_gpt5.  The content of a response is a     *)
(* sequence of tokens: "F" a fence ```, "j" the word json in any case, "S"     *)
(* white space, "V" the text of a JSON object without a fence or a quote       *)
(* outside it, "O" the start of a JSON object up to and with the opening quote *)
(* of a string ({"title": "), "C" the closing quote and brace ("}), "X" any    *)
(* other text.                                                                 *)

Tokens == {"F", "j", "S", "V", "O", "C", "X"}

Text(seq) == [t |-> "text", v |-> seq]

Contents == {Text(seq) : seq \in SeqsUpTo(Tokens, MaxLen)}

\* str.strip()
RECURSIVE LStrip(_)
LStrip(seq) ==
    IF seq # <<>> /\ Head(seq) = "S" THEN LStrip(Tail(seq)) ELSE seq

RECURSIVE RStrip(_)
RStrip(seq) ==
    IF seq # <<>> /\ seq[Len(seq)] = "S" THEN RStrip(SubSeq(seq, 1, Len(seq) - 1)) ELSE seq

Strip(seq) == RStrip(LStrip(seq))

\* json.loads(text) returns: the text, white space around it aside, is one JSON
\* object, "V" or a string of quote-free text between "O" and "C"
IsJson(seq) ==
    LET body == Strip(seq)
    IN  \/ body = <<"V">>
        \/ /\ Len(body) >= 2
           /\ body[1] = "O"
           /\ body[Len(body)] = "C"
           /\ \A i \in 2..(Len(body) - 1) : body[i] \in {"F", "j", "S", "X"}

\* the positions of "```json" in content.lower() and of "```" in content
JsonFences(seq) == {i \in 1..(Len(seq) - 1) : seq[i] = "F" /\ seq[i + 1] = "j"}
Fences(seq) == {i \in 1..Len(seq) : seq[i] = "F"}

Min(S) == CHOOSE x \in S : \A y \in S : x <= y
Max(S) == CHOOSE x \in S : \A y \in S : x >= y

\* lines 131-138: the text after the first ```json up to the next fence, or to
\* the end without one, stripped
ExtractMarked(seq) ==
    LET json_start == Min(JsonFences(seq)) + 2
        closing == {k \in Fences(seq) : k >= json_start}
    IN  IF closing = {}
        THEN Strip(SubSeq(seq, json_start, Len(seq)))
        ELSE Strip(SubSeq(seq, json_start, Min(closing) - 1))

\* lines 145-151: the text after the first fence up to the last one, or to the
\* end when the last fence does not come after it, stripped
ExtractGeneric(seq) ==
    LET json_start == Min(Fences(seq)) + 1
        json_end == Max(Fences(seq))
    IN  IF json_end <= json_start
        THEN Strip(SubSeq(seq, json_start, Len(seq)))
        ELSE Strip(SubSeq(seq, json_start, json_end - 1))

\* lines 129-168: the if / elif / else picks one extraction by the fences the
\* content has, and json.loads of it decides
ParseResponse(seq) ==
    LET json_content ==
            IF JsonFences(seq) # {} THEN ExtractMarked(seq)
            ELSE IF Fences(seq) # {} THEN ExtractGeneric(seq)
            ELSE Strip(seq)
    IN  [ok |-> IsJson(json_content), json_content |-> json_content]

\* The fallback taken on unparsable content too.  (A bug the code does not
\* have.)
NeedsFallbackOrUnparsable(content) ==
    ~Truthy(content) \/ ~ParseResponse(content.v).ok

\* if not content
NeedsFallback(content) == ~Truthy(content)

\* what a chat.completions.create call gives: an exception, or a content that
\* is None or a text
Responses == {[t |-> "raise"], Null} \cup Contents

ExtractDone(e, content) ==
    LET r == ParseResponse(content.v)
    IN  [e EXCEPT !.pc = "done",
                  !.outcome = IF r.ok THEN "ok" ELSE "ExtractionParseError",
                  !.extracted = r.json_content]

\* analyze_diagram_with_gpt5 is called.
ExtractBegin ==
    /\ ex.pc = "idle"
    /\ ex' = [IdleExtract EXCEPT !.pc = "primary"]
    /\ UNCHANGED <<uuidCtr, assigned, lastBuild, built, dnodes, cnodes, edges, clock, sc, q, up, hc, par, ws>>

\* The primary call returns or raises; on content the response is parsed.
PrimaryCall(resp) ==
    /\ ex.pc = "primary"
    /\ LET e == [ex EXCEPT !.calls = Append(ex.calls, "primary"), !.first = resp]
       IN  ex' = IF resp.t = "raise"
                 THEN [e EXCEPT !.pc = "done", !.outcome = "InferenceFailed"]
                 ELSE IF NeedsFallback(resp)
                 THEN [e EXCEPT !.pc = "fallback"]
                 ELSE ExtractDone(e, resp)
    /\ UNCHANGED <<uuidCtr, assigned, lastBuild, built, dnodes, cnodes, edges, clock, sc, q, up, hc, par, ws>>

\* The fallback call returns or raises; empty content again is the ValueError
\* "Both GPT-5 and GPT-4o returned empty responses".
FallbackCall(resp) ==
    /\ ex.pc = "fallback"
    /\ LET e == [ex EXCEPT !.calls = Append(ex.calls, "fallback"), !.second = resp]
       IN  ex' = IF resp.t = "raise"
                 THEN [e EXCEPT !.pc = "done", !.outcome = "InferenceFailed"]
                 ELSE IF ~Truthy(resp)
                 THEN [e EXCEPT !.pc = "done", !.outcome = "ExtractionEmpty"]
                 ELSE ExtractDone(e, resp)
    /\ UNCHANGED <<uuidCtr, assigned, lastBuild, built, dnodes, cnodes, edges, clock, sc, q, up, hc, par, ws>>

NextExtract ==
    \/ ExtractBegin
    \/ \E resp \in Responses : PrimaryCall(resp)
    \/ \E resp \in Responses : FallbackCall(resp)

SpecExtract == InitCommon /\ [][NextExtract]_vars

-----------------------------------------------------------------------------
(* Claims about analyze_diagram_with_gpt5, under SpecExtract. *)

ExtractReturned == ex.pc = "done"

\* the content the parse was run on
Parsed == IF ex.calls = <<"primary">> THEN ex.first ELSE ex.second

\* C8: an extract() makes one or two inference calls, the fallback only after
\* the primary call returned empty content and once; empty content from the
\* fallback too is ExtractionEmpty; no call follows a parse failure.
C8_OneOrTwoCalls ==
    /\ Len(ex.calls) <= 2
    /\ ex.pc = "fallback" => ex.calls = <<"primary">> /\ ~Truthy(ex.first)
    /\ ExtractReturned =>
          /\ ex.calls \in {<<"primary">>, <<"primary", "fallback">>}
          /\ Len(ex.calls) = 2 <=> (ex.first.t # "raise" /\ ~Truthy(ex.first))
          /\ (Len(ex.calls) = 2 /\ ex.second.t # "raise" /\ ~Truthy(ex.second))
                => ex.outcome = "ExtractionEmpty"
          /\ ex.outcome = "ExtractionEmpty" => Len(ex.calls) = 2
          /\ ex.outcome = "ExtractionParseError" =>
                /\ Truthy(Parsed)
                /\ ~IsJson(ex.extracted)
                /\ Len(ex.calls) = 1 => Truthy(ex.first)

\* C8 witness: both calls were made and both returned empty content.
C8_Witness ==
    /\ ExtractReturned
    /\ ex.calls = <<"primary", "fallback">>
    /\ ex.outcome = "ExtractionEmpty"

\* the three extraction strategies, each on its own: what it extracts from the
\* content and whether that is valid JSON
MarkedYields(seq) == JsonFences(seq) # {} /\ IsJson(ExtractMarked(seq))
GenericYields(seq) == Fences(seq) # {} /\ IsJson(ExtractGeneric(seq))
RawYields(seq) == IsJson(seq)

\* C9: extract() fails with ExtractionParseError only if none of the three
\* strategies (JSON-marked fence, generic fence, raw content) yields valid JSON
\* for the content.
C9_FailsOnlyIfNoStrategyYields ==
    (ExtractReturned /\ ex.outcome = "ExtractionParseError") =>
        /\ ~MarkedYields(Parsed.v)
        /\ ~GenericYields(Parsed.v)
        /\ ~RawYields(Parsed.v)

-----------------------------------------------------------------------------
(* Claims about query_scene_graphs, under Spec. *)

QueryReturned == q.pc = "done"

\* C11: a query for a diagram id whose reconstruction yields nothing ends with
\* DiagramNotFound and without an inference call; one whose reconstruction
\* yields a graph makes exactly one inference call, and when that call
\* returns, the result is its content with a confidence score.
C11_NotFoundOrOneInferenceCall ==
    /\ q.calls <= 1
    /\ q.calls = 1 => q.context # Null
    /\ (QueryReturned /\ Truthy(q.arg)) =>
          /\ q.context = Null <=> q.outcome = "DiagramNotFound"
          /\ q.outcome = "DiagramNotFound" => q.calls = 0 /\ q.result = Null
          /\ q.context # Null =>
                /\ q.calls = 1
                /\ q.context.diagram.id = q.arg
                /\ q.outcome \in {"answered", "InferenceFailed"}
                /\ q.outcome = "InferenceFailed" <=> q.reply.t = "raise"
                /\ q.outcome = "answered" =>
                      /\ q.result.answer = q.reply
                      /\ q.result.confidence = "0.9"

\* C11 witness: a query for the id of a stored diagram returned the second
\* answer text.
C11_Witness ==
    /\ QueryReturned /\ Truthy(q.arg) /\ q.outcome = "answered"
    /\ q.result.answer = Str("A2")

\* C11 witness of the other case: a query for an id the store does not have.
C11_WitnessNotFound ==
    /\ QueryReturned /\ q.arg = Str("nope") /\ q.outcome = "DiagramNotFound"
    /\ ~q.failed /\ dnodes # <<>>

\* the Diagram node a reconstructed context is of
ContextNode == CHOOSE j \in Matching(dnodes, q.context.diagram.id) : TRUE

\* C12: the context a query reconstructs for a stored diagram has the
\* diagram_type, source_filename, building_zone, floor_level and scale that
\* the store put on the Diagram node.
C12_ContextCarriesMetadata ==
    (q.pc \in {"infer", "done"} /\ q.context # Null) =>
        /\ q.context.diagram.diagram_type = dnodes[ContextNode].diagram_type
        /\ q.context.diagram.source_filename = dnodes[ContextNode].source_filename
        /\ q.context.diagram.building_zone = dnodes[ContextNode].building_zone
        /\ q.context.diagram.floor_level = dnodes[ContextNode].floor_level
        /\ q.context.diagram.scale = dnodes[ContextNode].scale

\* C13: a query in which a read of the graph store failed does not end with
\* DiagramNotFound or NoDiagramsFound.
C13_ReadFailureNotReportedAsNotFound ==
    (QueryReturned /\ q.failed) =>
        q.outcome \notin {"DiagramNotFound", "NoDiagramsFound"}

-----------------------------------------------------------------------------
(* DocumentProcessor.  A filename is a sequence of tokens: "a" a letter, "."   *)
(* a dot, "/" a path separator, and the words png, PNG, jpg, jpeg, pdf, Pdf,   *)
(* txt, which hold no dot and no separator.                                    *)

MAX_FILE_SIZE == 10485760

ALLOWED_EXTENSIONS == {"png", "jpg", "jpeg", "pdf"}

NameTokens == {"a", ".", "/", "png", "PNG", "jpg", "jpeg", "pdf", "Pdf", "txt"}

\* str.lower() of a token
Lower(tok) ==
    CASE tok = "PNG" -> "png"
      [] tok = "Pdf" -> "pdf"
      [] OTHER -> tok

\* Path(filename).name: the last component of the path, trailing separators
\* and "." components aside
RECURSIVE PathName(_)
PathName(filename) ==
    LET n == Len(filename)
    IN  IF n = 0 THEN <<>>
        ELSE IF filename[n] = "/" THEN PathName(SubSeq(filename, 1, n - 1))
        ELSE IF filename[n] = "." /\ (n = 1 \/ filename[n - 1] = "/")
        THEN PathName(SubSeq(filename, 1, n - 1))
        ELSE LET seps == {i \in 1..n : filename[i] = "/"}
             IN  IF seps = {} THEN filename
                 ELSE SubSeq(filename, Max(seps) + 1, n)

\* Path(filename).suffix.lower(), without its dot: what follows the last dot
\* of the name, unless that dot starts or ends the name; <<>> for no suffix
Suffix(filename) ==
    LET name == PathName(filename)
        dots == {i \in 1..Len(name) : name[i] = "."}
    IN  IF dots = {} \/ Max(dots) = 1 \/ Max(dots) = Len(name)
        THEN <<>>
        ELSE LET rest == SubSeq(name, Max(dots) + 1, Len(name))
             IN  [i \in 1..Len(rest) |-> Lower(rest[i])]

\* file_ext in a set of extensions
SuffixIn(filename, exts) ==
    Len(Suffix(filename)) = 1 /\ Suffix(filename)[1] \in exts

\* validate_file with the suffix compared as it is written.  (A bug the code
\* does not have.)
ValidateFileCaseSensitive(filename, content_length) ==
    IF ~(SuffixIn(filename, ALLOWED_EXTENSIONS)
         /\ PathName(filename)[Len(PathName(filename))] \in ALLOWED_EXTENSIONS)
    THEN "UnsupportedFormat"
    ELSE IF content_length > MAX_FILE_SIZE THEN "FileTooLarge"
    ELSE "ok"

\* validate_file: ValueError("Unsupported file type ...") first, then
\* ValueError("File size ... exceeds maximum ..."), else True
ValidateFile(filename, content_length) ==
    IF ~SuffixIn(filename, ALLOWED_EXTENSIONS) THEN "UnsupportedFormat"
    ELSE IF content_length > MAX_FILE_SIZE THEN "FileTooLarge"
    ELSE "ok"

\* process_file without its validate_file: every file goes to a decoder.  (A
\* bug the code does not have.)
ProcessFileResultUnchecked(u, decodes) ==
    [u EXCEPT !.decoded = TRUE,
              !.outcome = IF decodes THEN "ok" ELSE "DecodeFailed",
              !.raised = IF decodes THEN "" ELSE "ValueError",
              !.detail = IF decodes THEN "" ELSE "Failed to process"]

\* process_file(filename, file_bytes) from a call in state u: validate, then
\* process_pdf or process_image on the bytes, which returns or raises
\* ValueError("Failed to process ...") (decodes = FALSE).
ProcessFileResult(u, decodes) ==
    LET v == ValidateFile(u.filename, u.size)
    IN  IF v # "ok"
        THEN [u EXCEPT !.outcome = v, !.rejected = v, !.raised = "ValueError",
                       !.detail = v]
        ELSE IF SuffixIn(u.filename, {"pdf"}) \/ SuffixIn(u.filename, {"png", "jpg", "jpeg"})
        THEN [u EXCEPT !.decoded = TRUE,
                       !.outcome = IF decodes THEN "ok" ELSE "DecodeFailed",
                       !.raised = IF decodes THEN "" ELSE "ValueError",
                       !.detail = IF decodes THEN "" ELSE "Failed to process"]
        ELSE [u EXCEPT !.outcome = "UnsupportedFormat", !.raised = "ValueError",
                       !.detail = "UnsupportedFormat"]

\* A call of process_file on its own, on the filename and size drawn in the
\* initial state.
ProcessFile(decodes) ==
    /\ up.pc = "process_file"
    /\ up' = [ProcessFileResult(up, decodes) EXCEPT !.pc = "processed"]
    /\ UNCHANGED <<uuidCtr, assigned, lastBuild, built, dnodes, cnodes, edges, clock, sc, q, ex, hc, par, ws>>

FileNames == SeqsUpTo(NameTokens, MaxName)

FileSizes == {0, MAX_FILE_SIZE - 1, MAX_FILE_SIZE, MAX_FILE_SIZE + 1}

InitNormalize ==
    /\ uuidCtr = 0
    /\ assigned = {}
    /\ lastBuild = NoBuild
    /\ built = <<>>
    /\ dnodes = <<>>
    /\ cnodes = <<>>
    /\ edges = <<>>
    /\ clock = 1
    /\ sc = IdleStore
    /\ q = IdleQuery
    /\ ex = IdleExtract
    /\ up \in {[IdleUpload EXCEPT !.pc = "process_file", !.filename = f, !.size = n] :
                  f \in FileNames, n \in FileSizes}
    /\ hc = IdleHealth
    /\ par = <<>>
    /\ ws = IdleChat

NextNormalize == \E decodes \in BOOLEAN : ProcessFile(decodes)

SpecNormalize == InitNormalize /\ [][NextNormalize]_vars

-----------------------------------------------------------------------------
(* upload_diagram (POST /upload) as a process.  Its body is one try block:    *)
(* except ValueError -> 400 with str(e); except Exception -> 500 with          *)
(* "Internal server error".  HTTPException is an Exception and no ValueError.  *)

\* The response of the except clauses to an exception of type exc with text msg.
Respond(u, exc, msg) ==
    IF exc = "ValueError"
    THEN [u EXCEPT !.pc = "done", !.raised = exc, !.status = 400, !.detail = msg]
    ELSE [u EXCEPT !.pc = "done", !.raised = exc, !.status = 500,
                   !.detail = "Internal server error"]

UploadNames ==
    {<<"a", ".", "png">>, <<"a", ".", "PNG">>, <<"a", ".", "pdf">>,
     <<"a", ".", "txt">>, <<"a">>}

UploadSizes == {MAX_FILE_SIZE, MAX_FILE_SIZE + 1}

\* A request arrives with a file.
UploadBegin(filename, size) ==
    /\ up.pc = "idle"
    /\ sc.pc = "idle" /\ ex.pc = "idle"
    /\ up' = [IdleUpload EXCEPT !.pc = "size", !.filename = filename, !.size = size]
    /\ UNCHANGED <<uuidCtr, assigned, lastBuild, built, dnodes, cnodes, edges, clock, sc, q, ex, hc, par, ws>>

\* if len(file_bytes) > MAX_FILE_SIZE: raise HTTPException(413), inside the try
UploadSizeCheck ==
    /\ up.pc = "size"
    /\ up' = IF up.size > MAX_FILE_SIZE
             THEN Respond([up EXCEPT !.rejected = "FileTooLarge"], "HTTPException",
                          "File too large")
             ELSE [up EXCEPT !.pc = "prelude"]
    /\ UNCHANGED <<uuidCtr, assigned, lastBuild, built, dnodes, cnodes, edges, clock, sc, q, ex, hc, par, ws>>

\* The building lookup (HTTPException 404 / 400 without one) and
\* blob_storage.save_uploaded_file (which may raise).
UploadPrelude(outcome) ==
    /\ up.pc = "prelude"
    /\ up' = CASE outcome = "ok" -> [up EXCEPT !.pc = "process"]
               [] outcome = "no_building" -> Respond(up, "HTTPException", "Building not found")
               [] outcome = "blob_error" -> Respond(up, "Exception", "blob storage")
    /\ UNCHANGED <<uuidCtr, assigned, lastBuild, built, dnodes, cnodes, edges, clock, sc, q, ex, hc, par, ws>>

\* create_scene_graph_from_file: self.doc_processor.process_file(...)
UploadProcessFile(decodes) ==
    /\ up.pc = "process"
    /\ LET r == ProcessFileResult(up, decodes)
       IN  up' = IF r.outcome = "ok"
                 THEN [r EXCEPT !.pc = "analyze"]
                 ELSE Respond(r, "ValueError", r.detail)
    /\ UNCHANGED <<uuidCtr, assigned, lastBuild, built, dnodes, cnodes, edges, clock, sc, q, ex, hc, par, ws>>

\* create_scene_graph_from_file: analyze_diagram_with_gpt5 is called.
UploadAnalyze ==
    /\ up.pc = "analyze"
    /\ ex.pc = "idle"
    /\ ex' = [IdleExtract EXCEPT !.pc = "primary"]
    /\ up' = [up EXCEPT !.pc = "extracting"]
    /\ UNCHANGED <<uuidCtr, assigned, lastBuild, built, dnodes, cnodes, edges, clock, sc, q, hc, par, ws>>

\* the exception _convert_to_scene_graph raises on scene_data: pydantic's
\* ValidationError (a ValueError) of the SceneGraph, else a TypeError
BuildException(scene_data) ==
    IF /\ Iterable(Get(scene_data, "components", List(<<>>)))
       /\ Iterable(Get(scene_data, "relationships", List(<<>>)))
       /\ IsDict(Get(scene_data, "metadata", EmptyDict))
    THEN "ValueError"
    ELSE "TypeError"

\* analyze_diagram_with_gpt5 returned scene_data or raised; on scene_data the
\* build runs and db.store_scene_graph is called.  ExtractionEmpty and
\* ExtractionParseError are ValueErrors with their message.
UploadExtracted(scene_data) ==
    /\ up.pc = "extracting"
    /\ ex.pc = "done"
    /\ ex' = IdleExtract
    /\ IF ex.outcome # "ok"
       THEN /\ up' = IF ex.outcome = "InferenceFailed"
                     THEN Respond([up EXCEPT !.outcome = ex.outcome], "APIError", "")
                     ELSE Respond([up EXCEPT !.outcome = ex.outcome], "ValueError",
                                  ex.outcome)
            /\ UNCHANGED <<uuidCtr, assigned, lastBuild, built, sc>>
       ELSE LET r == ConvertToSceneGraph(scene_data, up.filename, uuidCtr)
            IN  /\ uuidCtr' = r.u
                /\ lastBuild' = Converted(lastBuild.n + 1, scene_data, up.filename, r)
                /\ IF r.raised
                   THEN /\ up' = Respond([up EXCEPT !.outcome = "BuildFailed"],
                                         BuildException(scene_data), "validation error")
                        /\ UNCHANGED <<assigned, built, sc>>
                   ELSE /\ assigned' = assigned \cup {r.graph.diagram_id}
                        /\ built' = Append(built, r.graph)
                        /\ sc' = BeginStore(Len(built) + 1)
                        /\ up' = [up EXCEPT !.pc = "storing"]
    /\ UNCHANGED <<dnodes, cnodes, edges, clock, q, hc, par, ws>>

\* db.store_scene_graph returned: False is Exception("Failed to store scene
\* graph in database"); on True the Drawing record is written (which may
\* raise) and the summary of the SceneGraph is the response.
UploadStored(recorded) ==
    /\ up.pc = "storing"
    /\ sc.pc = "returned"
    /\ up' = IF ~sc.result
             THEN Respond([up EXCEPT !.outcome = "StoreWriteFailed"], "Exception",
                          "Failed to store scene graph in database")
             ELSE IF ~recorded
             THEN Respond([up EXCEPT !.outcome = "RecordFailed"], "SQLAlchemyError", "")
             ELSE [up EXCEPT !.pc = "done", !.outcome = "ok", !.status = 200,
                             !.detail = "Scene graph created successfully"]
    /\ UNCHANGED <<uuidCtr, assigned, lastBuild, built, dnodes, cnodes, edges, clock, sc, q, ex, hc, par, ws>>

\* what the two inference calls of an upload give: an exception, no content,
\* an empty text, a JSON object bare and fenced, and a text that does not parse
UploadResponses ==
    {[t |-> "raise"], Null, Text(<<>>), Text(<<"V">>), Text(<<"F", "j", "V", "F">>),
     Text(<<"X">>)}

NextUpload ==
    \/ \E f \in UploadNames, n \in UploadSizes : UploadBegin(f, n)
    \/ UploadSizeCheck
    \/ \E o \in {"ok", "no_building", "blob_error"} : UploadPrelude(o)
    \/ \E decodes \in BOOLEAN : UploadProcessFile(decodes)
    \/ UploadAnalyze
    \/ \E resp \in UploadResponses : PrimaryCall(resp)
    \/ \E resp \in UploadResponses : FallbackCall(resp)
    \/ \E c \in StoreCandidates : UploadExtracted(c)
    \/ StoreStatement
    \/ \E applied \in BOOLEAN : StoreFailure(applied)
    \/ \E recorded \in BOOLEAN : UploadStored(recorded)

SpecUpload == InitCommon /\ [][NextUpload]_vars

-----------------------------------------------------------------------------
(* Claims about upload_diagram, under SpecUpload. *)

UploadReturned == up.pc = "done"

\* C14: an upload turned down by input validation, for its extension
\* (UnsupportedFormat) or its byte length (FileTooLarge), gets a 4xx response.
C14_ValidationIsClientError ==
    (UploadReturned /\ up.rejected \in {"UnsupportedFormat", "FileTooLarge"}) =>
        up.status \in 400..499

\* C15: an upload whose extraction ended with ExtractionEmpty or
\* ExtractionParseError gets a 5xx response whose detail is the generic
\* failure text.
C15_ExtractionFailureIsGenericServerError ==
    (UploadReturned /\ up.outcome \in {"ExtractionEmpty", "ExtractionParseError"}) =>
        /\ up.status \in 500..599
        /\ up.detail = "Internal server error"

-----------------------------------------------------------------------------
(* Claims about health_check, under Spec. *)

\* C16: health_check() returns False on every error against the store and
\* raises nothing, and the /health response has status "healthy" only when
\* health_check() returned True.
C16_HealthFailsClosed ==
    /\ ~hc.propagated
    /\ hc.pc \in {"probed", "done"} =>
          /\ hc.probe = "raise" => ~hc.db_healthy
          /\ hc.db_healthy <=> hc.probe = "row"
    /\ hc.pc = "done" =>
          /\ hc.status \in {"healthy", "unhealthy"}
          /\ hc.status = "healthy" => hc.db_healthy

\* C16 witness: the probe raised while diagrams are stored, and the response
\* says unhealthy.
C16_Witness ==
    /\ hc.pc = "done" /\ hc.probe = "raise" /\ hc.status = "unhealthy"
    /\ dnodes # <<>>

-----------------------------------------------------------------------------
(* Claims about process_file, under SpecNormalize. *)

\* The name ends in a dot and one of the words, in any case, and the dot is not
\* the first character of the name.
HasAllowedExtension(filename) ==
    LET name == PathName(filename)
    IN  /\ Len(name) >= 3
        /\ name[Len(name) - 1] = "."
        /\ name[Len(name)] \in {"png", "PNG", "jpg", "jpeg", "pdf", "Pdf"}

\* C17: process_file passes validation exactly when the extension of the
\* filename, whatever its case, is one of .png, .jpg, .jpeg, .pdf and the
\* length is at most the maximum; else it fails with UnsupportedFormat for the
\* extension, checked first, or FileTooLarge, and no decoder has seen the bytes.
C17_ValidationExact ==
    up.pc = "processed" =>
        LET extOk == HasAllowedExtension(up.filename)
            sizeOk == up.size <= MAX_FILE_SIZE
        IN  /\ up.outcome \in {"ok", "DecodeFailed", "UnsupportedFormat", "FileTooLarge"}
            /\ up.outcome \in {"ok", "DecodeFailed"} <=> (extOk /\ sizeOk)
            /\ ~extOk => up.outcome = "UnsupportedFormat"
            /\ (extOk /\ ~sizeOk) => up.outcome = "FileTooLarge"
            /\ up.decoded <=> (extOk /\ sizeOk)

\* C17 witness: an upper-case extension at exactly the maximum size passed.
C17_Witness ==
    /\ up.pc = "processed"
    /\ up.filename = <<"a", ".", "PNG">>
    /\ up.size = MAX_FILE_SIZE
    /\ up.outcome = "ok"

\* C17 witness of the order of the checks: a wrong extension and too many bytes.
C17_WitnessBoth ==
    /\ up.pc = "processed"
    /\ up.filename = <<"a", ".", "txt">>
    /\ up.size > MAX_FILE_SIZE
    /\ up.outcome = "UnsupportedFormat"

-----------------------------------------------------------------------------
(* Two store_scene_graph calls side by side, each on a session of its own:    *)
(* their statements interleave, each statement an auto-commit transaction.     *)

\* The SceneGraphs of two uploads, built one after the other.
BuiltRiser == ConvertToSceneGraph(CandRiser, "a.png", 0)
BuiltSink == ConvertToSceneGraph(CandSink, "a.png", BuiltRiser.u)

\* A call of store_scene_graph(built[gi]) at its first statement.
ParBegin(gi) == [pc |-> "run", gi |-> gi, attempt |-> 0, step |-> 1, result |-> FALSE]

InitPar ==
    /\ uuidCtr = BuiltSink.u
    /\ assigned = {BuiltRiser.graph.diagram_id, BuiltSink.graph.diagram_id}
    /\ lastBuild = NoBuild
    /\ built = <<BuiltRiser.graph, BuiltSink.graph>>
    /\ dnodes = <<>>
    /\ cnodes = <<>>
    /\ edges = <<>>
    /\ clock = 1
    /\ sc = IdleStore
    /\ q = IdleQuery
    /\ ex = IdleExtract
    /\ up = IdleUpload
    /\ hc = IdleHealth
    /\ par \in {<<ParBegin(i), ParBegin(j)>> : i, j \in 1..2}
    /\ ws = IdleChat

\* The next statement of call p runs and commits; after the last one the call
\* returns True.
ParStatement(p) ==
    /\ par[p].pc = "run"
    /\ LET g == built[par[p].gi]
       IN  /\ SetDB(Execute(DB, g, Statements(g)[par[p].step]))
           /\ par' = IF par[p].step = Len(Statements(g))
                     THEN [par EXCEPT ![p].pc = "returned", ![p].result = TRUE]
                     ELSE [par EXCEPT ![p].step = par[p].step + 1]
    /\ UNCHANGED <<uuidCtr, assigned, lastBuild, built, sc, q, ex, up, hc, ws>>

\* The next statement of call p raises, applied or not; the call starts its
\* next attempt or returns False.
ParFailure(p, applied) ==
    /\ par[p].pc = "run"
    /\ LET g == built[par[p].gi]
       IN  SetDB(IF applied THEN Execute(DB, g, Statements(g)[par[p].step]) ELSE DB)
    /\ par' = IF OnFailure(par[p].attempt) = "retry"
              THEN [par EXCEPT ![p].attempt = par[p].attempt + 1, ![p].step = 1]
              ELSE [par EXCEPT ![p].pc = "returned", ![p].result = FALSE]
    /\ UNCHANGED <<uuidCtr, assigned, lastBuild, built, sc, q, ex, up, hc, ws>>

NextPar ==
    \/ \E p \in 1..2 : ParStatement(p)
    \/ \E p \in 1..2, applied \in BOOLEAN : ParFailure(p, applied)

SpecPar == InitPar /\ [][NextPar]_vars

-----------------------------------------------------------------------------
(* Claims about stores side by side, under SpecPar. *)

BothReturned == par[1].pc = "returned" /\ par[2].pc = "returned"

\* the store after store_scene_graph(g) alone, on the empty store
Alone(g) == ExecuteAll(EmptyGraphDb, g, Statements(g))

Rows(seq) == {seq[k] : k \in 1..Len(seq)}

\* C18: after two stores of SceneGraphs with different diagram ids have both
\* returned True, the components and the relationships the queries give for
\* the diagram id of each are those they give after its store alone.
C18_StoresIndependent ==
    (BothReturned /\ par[1].result /\ par[2].result /\ par[1].gi # par[2].gi) =>
        \A p \in 1..2 :
            LET g == built[par[p].gi]
            IN  /\ Rows(GetComponents(DB, g.diagram_id))
                      = Rows(GetComponents(Alone(g), g.diagram_id))
                /\ Rows(GetRelationships(DB, g.diagram_id))
                      = Rows(GetRelationships(Alone(g), g.diagram_id))

\* C19: after two stores of the same SceneGraph g side by side have both
\* returned, one of them True, there is exactly one Diagram node for the id
\* of g, one Component node per component id of g, one CONTAINS edge per
\* component and one edge per relationship of g between stored components:
\* the state a single store of g leaves.
C19_SameIdStoresConverge ==
    (BothReturned /\ par[1].gi = par[2].gi /\ (par[1].result \/ par[2].result)) =>
        LET g == built[par[1].gi]
            ids == NodeIds(g)
        IN  /\ Persisted(DB) = Persisted(Alone(g))
            /\ Cardinality({k \in 1..Len(dnodes) : dnodes[k].id = g.diagram_id}) = 1
            /\ Len(dnodes) = 1
            /\ \A id \in ids : Cardinality({k \in 1..Len(cnodes) : cnodes[k].id = id}) = 1
            /\ Len(cnodes) = Cardinality(ids)
            /\ \A id \in ids :
                   Cardinality({k \in 1..Len(edges) :
                                   /\ edges[k].sk = "D"
                                   /\ cnodes[edges[k].d].id = id}) = 1
            /\ \A r \in Rows(g.relationships) :
                   ({r.source_id, r.target_id} \subseteq ids) =>
                       Cardinality({k \in 1..Len(edges) :
                                       /\ edges[k].sk = "C"
                                       /\ cnodes[edges[k].s].id = r.source_id
                                       /\ cnodes[edges[k].d].id = r.target_id
                                       /\ edges[k].type = r.type}) = 1
            /\ Len(edges) = Cardinality(ids)
                   + Cardinality({<<r.source_id, r.target_id, r.type>> :
                                     r \in {x \in Rows(g.relationships) :
                                               {x.source_id, x.target_id} \subseteq ids}})

\* C19 witness: both calls, in flight together on the graph with a
\* relationship, returned True, one of them after a retry
C19_Witness ==
    /\ BothReturned
    /\ par[1].gi = 1 /\ par[2].gi = 1
    /\ par[1].result /\ par[2].result
    /\ par[1].attempt + par[2].attempt > 0
    /\ Len(edges) = 3

-----------------------------------------------------------------------------
(* Claims about the relationship query, under Spec. *)

\* the relationship query of a query for a diagram id has run
RelationshipsRead == q.pc \in {"infer", "done"} /\ q.context # Null

\* the positions of the Components a Diagram node with the queried id owns
OwnedComponents ==
    {c \in 1..Len(cnodes) :
        \E k \in 1..Len(edges) :
            /\ edges[k].sk = "D"
            /\ edges[k].type = "CONTAINS"
            /\ dnodes[edges[k].s].id = q.diagram_id
            /\ edges[k].d = c}

\* the positions of the stored typed edges between two of them
OwnedTypedEdges ==
    {k \in 1..Len(edges) :
        /\ edges[k].sk = "C"
        /\ edges[k].type \in RelationshipType
        /\ edges[k].s \in OwnedComponents
        /\ edges[k].d \in OwnedComponents}

RowOfEdge(row, e) ==
    /\ row.source_id = cnodes[e.s].id
    /\ row.target_id = cnodes[e.d].id
    /\ row.relationship_type = e.type
    /\ row.distance = e.distance
    /\ row.angle = e.angle

\* C20: the rows the relationship query returns for a diagram id are, one for
\* one, the stored edges of one of the seven relationship kinds from a
\* Component the Diagram owns to a Component the Diagram owns; no row is an
\* edge from the Diagram node.
C20_RelationshipQueryExact ==
    RelationshipsRead =>
        /\ Len(q.relationships) = Cardinality(OwnedTypedEdges)
        /\ \A k \in OwnedTypedEdges :
               \E r \in 1..Len(q.relationships) : RowOfEdge(q.relationships[r], edges[k])
        /\ \A r \in 1..Len(q.relationships) :
               /\ \E k \in OwnedTypedEdges : RowOfEdge(q.relationships[r], edges[k])
               /\ q.relationships[r].source_id # q.diagram_id
               /\ q.relationships[r].relationship_type \in RelationshipType
        /\ q.context.relationships = q.relationships

\* C20 witness: the query returned two edges between the Components of the
\* diagram, one of them of kind CONTAINS, and none of the diagram's two
\* ownership edges.
C20_Witness ==
    /\ RelationshipsRead
    /\ Len(q.relationships) = 2
    /\ Cardinality(OwnedComponents) = 2
    /\ \E r \in 1..2 : q.relationships[r].relationship_type = "CONTAINS"

\* C20 witness of the exclusion: the store holds an edge from a Component the
\* diagram owns to one it does not own, and the query returned no row.
C20_WitnessNotOwned ==
    /\ RelationshipsRead
    /\ q.relationships = <<>>
    /\ \E k \in 1..Len(edges) :
          /\ edges[k].sk = "C"
          /\ edges[k].s \in OwnedComponents
          /\ edges[k].d \notin OwnedComponents

-----------------------------------------------------------------------------
(* Further claims about _convert_to_scene_graph, under SpecBuild. *)

\* C21: the SceneGraph returned by build() never contains two components with
\* the same id, whatever ids the candidate supplies.
C21_ComponentIdsUnique ==
    BuildReturned => UniqueComponentIds(lastBuild.graph)

BuiltOnes == {"source_filename", "processing_timestamp"}

\* C22: the metadata of a SceneGraph returned by build(candidate, filename)
\* has source_filename equal to the filename and a processing_timestamp drawn
\* by the call, whatever the candidate supplies for the two, and every other
\* key of the candidate's metadata with its value.
C22_MetadataMerged ==
    BuildReturned =>
        LET md == lastBuild.graph.metadata
        IN  /\ BuiltOnes \subseteq DOMAIN md
            /\ md["source_filename"] = Str(lastBuild.filename)
            /\ md["processing_timestamp"].t = "uuid"
            /\ \A k \in (DOMAIN CandMetadata.v) \ BuiltOnes :
                   k \in DOMAIN md /\ md[k] = CandMetadata.v[k]
            /\ DOMAIN md = (DOMAIN CandMetadata.v) \cup BuiltOnes

\* C22 witness: the candidate's metadata supplied a source_filename, a
\* processing_timestamp and one more key, and the build returned.
C22_Witness ==
    /\ BuildReturned
    /\ IsDict(CandMetadata)
    /\ BuiltOnes \subseteq DOMAIN CandMetadata.v
    /\ CandMetadata.v["source_filename"] # Str(lastBuild.filename)
    /\ lastBuild.graph.metadata["diagram_type"] = Str("plumbing")

\* C27: build() returns a SceneGraph without raising for every candidate that
\* is a JSON object, whatever it holds under components, relationships and
\* metadata.
C27_BuildNeverRaises ==
    lastBuild.n > 0 => ~lastBuild.raised

\* C28: after build(candidate, filename) has returned, the candidate, its
\* metadata map included, has the keys and values it had before the call.
C28_CandidateUnchanged ==
    BuildReturned => lastBuild.after = lastBuild.cand

-----------------------------------------------------------------------------
(* A query side by side with two store_scene_graph calls of one SceneGraph:    *)
(* the reads of query_scene_graphs fall between the auto-commit statements of  *)
(* the stores.                                                                 *)

InitReadWrite ==
    /\ InitPar
    /\ par = <<ParBegin(1), ParBegin(1)>>

NextReadWrite ==
    \/ \E p \in 1..2 : ParStatement(p)
    \/ \E p \in 1..2, applied \in BOOLEAN : ParFailure(p, applied)
    \/ \E arg \in QueryArgs : QueryBegin(arg)
    \/ \E fails \in BOOLEAN : QueryList(fails)
    \/ \E fails \in BOOLEAN : QueryInfo(fails)
    \/ \E fails \in BOOLEAN : QueryComponents(fails)
    \/ \E fails \in BOOLEAN : QueryRelationships(fails)
    \/ \E resp \in Answers : QueryInfer(resp)
    \/ QueryReturn

SpecReadWrite == InitReadWrite /\ [][NextReadWrite]_vars

\* the SceneGraph built with the diagram id the query reads
Queried == built[CHOOSE i \in 1..Len(built) : built[i].diagram_id = q.diagram_id]

\* C23: a query running side by side with store(g) that finds the Diagram
\* node of g reads all the components of g and all the relationships of g
\* between them, never a part of them.
C23_StoreAttemptIsOneUnit ==
    RelationshipsRead =>
        /\ RowIds(q.components) = NodeIds(Queried)
        /\ \A r \in Rows(Queried.relationships) :
               ({r.source_id, r.target_id} \subseteq NodeIds(Queried)) =>
                   \E k \in 1..Len(q.relationships) :
                       /\ q.relationships[k].source_id = r.source_id
                       /\ q.relationships[k].target_id = r.target_id
                       /\ q.relationships[k].relationship_type = r.type

-----------------------------------------------------------------------------
(* Claims about create_scene_graph_from_file, under SpecUpload. *)

\* C24: the pipeline runs normalize, extract, build, store in this order and
\* stops at the first stage that fails: an inference call is made only for a
\* file that passed validation and was decoded; the build runs only on an
\* extraction that succeeded; the store is called, and the graph store
\* written, only for the SceneGraph a build just returned; and the pipeline
\* returns only after store() returned True, a False being raised as a
\* failure.
C24_StagesInOrder ==
    [][/\ ex.calls' # ex.calls =>
            /\ up.pc = "extracting"
            /\ up.decoded
            /\ ValidateFile(up.filename, up.size) = "ok"
       /\ lastBuild' # lastBuild =>
            /\ up.pc = "extracting"
            /\ ex.pc = "done" /\ ex.outcome = "ok" /\ ex.calls # <<>>
       /\ (sc.pc # "run" /\ sc'.pc = "run") =>
            /\ up.pc = "extracting" /\ up'.pc = "storing"
            /\ ex.outcome = "ok"
            /\ lastBuild'.n = lastBuild.n + 1 /\ ~lastBuild'.raised
            /\ built'[sc'.gi] = lastBuild'.graph
       /\ DB' # DB => up.pc = "storing" /\ sc.pc = "run"
       /\ (up.pc # "done" /\ up'.pc = "done" /\ up'.outcome \in {"ok", "RecordFailed"}) =>
            /\ up.pc = "storing"
            /\ sc.pc = "returned" /\ sc.result
       /\ (up.pc = "storing" /\ up'.pc = "done" /\ ~sc.result) =>
            /\ up'.outcome = "StoreWriteFailed"
            /\ up'.raised = "Exception"
            /\ up'.status # 200
            /\ sc.fails = max_retries
      ]_vars

\* C24 witness: an upload went through the four stages and returned the
\* SceneGraph, of two components, after a store that had retried.
C24_Witness ==
    /\ UploadReturned /\ up.outcome = "ok" /\ up.status = 200
    /\ sc.pc = "returned" /\ sc.result /\ sc.fails > 0
    /\ Len(built[sc.gi].nodes) = 2
    /\ Len(cnodes) = 2

\* C24 witness of the failing store: store() returned False after three
\* attempts and the upload ended with the failure.
C24_WitnessStoreFailed ==
    /\ UploadReturned /\ up.outcome = "StoreWriteFailed"
    /\ sc.pc = "returned" /\ ~sc.result

\* C24 witness of a stop at the first stage: a file turned down by validation,
\* with no SceneGraph built and nothing stored.
C24_WitnessRejected ==
    /\ UploadReturned /\ up.rejected = "UnsupportedFormat"
    /\ lastBuild.n = 0 /\ dnodes = <<>> /\ sc.pc = "idle"

-----------------------------------------------------------------------------
(* Claims about the backoff of store_scene_graph, under Spec. *)

\* C25: store() sleeps 1 after the first failed attempt and 2 after the
\* second, and sleeps neither after the third failed attempt nor after an
\* attempt that succeeded.
C25_BackoffBetweenAttemptsOnly ==
    /\ [](sc.slept = CASE sc.fails = 0 -> <<>>
                        [] sc.fails = 1 -> <<1>>
                        [] OTHER -> <<1, 2>>)
    /\ [][/\ sc'.slept # sc.slept =>
               /\ sc'.pc = "run"
               /\ (sc.pc = "run" => sc'.attempt = sc.attempt + 1)
          /\ (sc.pc = "run" /\ sc'.pc = "returned") => sc'.slept = sc.slept
         ]_vars

\* C25 witness: a store returned True in its third attempt, after a sleep of 1
\* and a sleep of 2.
C25_Witness ==
    /\ StoreReturned /\ sc.result
    /\ sc.slept = <<1, 2>>

\* C25 witness of the third failure: the store returned False, having slept
\* twice.
C25_WitnessGaveUp ==
    /\ StoreReturned /\ ~sc.result
    /\ sc.fails = 3 /\ Len(sc.slept) = 2

-----------------------------------------------------------------------------
(* Claims about what readers see of a store, under Spec. *)

\* the diagram ids of the store() calls that returned True, up to the first call
StoredWithSuccess ==
    IF StoreReturned /\ sc.result THEN {Stored.diagram_id} ELSE {}

\* C26: up to the first store() call and until a second one, every diagram id
\* get_all_diagrams() returns, and the diagram id a query without one picks,
\* is the id of a store() call that returned True.
C26_VisibleOnlyAfterSuccess ==
    (sc.n <= 1 /\ sc.pc # "run") =>
        /\ \A k \in 1..Len(GetAllDiagrams(DB)) :
               GetAllDiagrams(DB)[k].diagram_id \in StoredWithSuccess
        /\ (q.pc \in {"info", "components", "relationships", "infer"} /\ ~Truthy(q.arg)) =>
               q.diagram_id \in StoredWithSuccess

-----------------------------------------------------------------------------
(* DocumentProcessor.process_pdf as a process.  A PDF is the sequence of the   *)
(* texts of its pages, a text a sequence of words.                             *)

MaxPages == 3

PageTexts == {<<>>, <<"x">>, <<"y">>}

Pdfs == {List(pages) : pages \in SeqsUpTo(PageTexts, MaxPages)}

\* base64 of the PNG of a page
Base64Png(page_num, page) == [t |-> "b64png", page_num |-> page_num, page |-> page]

\* except Exception as e: raise ValueError(f"Failed to process PDF: {e}")
PdfRaise(p) == [p EXCEPT !.pc = "done", !.outcome = "Failed to process PDF"]

\* An access to the document (len(doc), doc[i]) in state p of the call.
PdfAccess(p) == [p EXCEPT !.late = p.late \/ ~p.is_open]

InitPdf ==
    /\ uuidCtr = 0
    /\ assigned = {}
    /\ lastBuild = NoBuild
    /\ built = <<>>
    /\ dnodes = <<>>
    /\ cnodes = <<>>
    /\ edges = <<>>
    /\ clock = 1
    /\ sc = IdleStore
    /\ q = IdleQuery
    /\ ex = IdleExtract
    /\ hc = IdleHealth
    /\ par = <<>>
    /\ ws = IdleChat
    /\ up \in {[IdleUpload EXCEPT !.pc = "process_pdf",
                                  !.pdf = [IdlePdf EXCEPT !.pc = "open", !.doc = d]] :
                  d \in {Null} \cup Pdfs}

\* doc = fitz.open(stream=pdf_bytes, filetype="pdf"): raises on bytes that are
\* not a PDF
PdfOpen ==
    /\ up.pdf.pc = "open"
    /\ up' = [up EXCEPT !.pdf = IF IsNull(up.pdf.doc)
                                THEN PdfRaise(up.pdf)
                                ELSE [up.pdf EXCEPT !.pc = "text", !.is_open = TRUE]]
    /\ UNCHANGED <<uuidCtr, assigned, lastBuild, built, dnodes, cnodes, edges, clock, sc, q, ex, hc, par, ws>>

\* for page_num in range(len(doc)): text_content += doc[page_num].get_text()
PdfPageText ==
    /\ up.pdf.pc = "text"
    /\ LET p == PdfAccess(up.pdf)
           n == p.page_num + 1
       IN  up' = [up EXCEPT !.pdf =
                     IF p.page_num = Len(p.doc.v)
                     THEN [p EXCEPT !.pc = "render"]
                     ELSE [p EXCEPT !.page_num = n,
                                    !.text_content = p.text_content \o p.doc.v[n]]]
    /\ UNCHANGED <<uuidCtr, assigned, lastBuild, built, dnodes, cnodes, edges, clock, sc, q, ex, hc, par, ws>>

\* page = doc[0]: IndexError without a page; get_pixmap, tobytes, b64encode
PdfRender ==
    /\ up.pdf.pc = "render"
    /\ LET p == PdfAccess(up.pdf)
       IN  up' = [up EXCEPT !.pdf =
                     IF Len(p.doc.v) = 0
                     THEN PdfRaise(p)
                     ELSE [p EXCEPT !.pc = "close",
                                    !.img_base64 = Base64Png(1, p.doc.v[1])]]
    /\ UNCHANGED <<uuidCtr, assigned, lastBuild, built, dnodes, cnodes, edges, clock, sc, q, ex, hc, par, ws>>

\* doc.close()
PdfClose ==
    /\ up.pdf.pc = "close"
    /\ up' = [up EXCEPT !.pdf = [up.pdf EXCEPT !.pc = "log", !.is_open = FALSE]]
    /\ UNCHANGED <<uuidCtr, assigned, lastBuild, built, dnodes, cnodes, edges, clock, sc, q, ex, hc, par, ws>>

\* logger.info(f"Processed PDF: {len(doc)} pages, ..."), then the return.
\* len() of a document that is not open raises (PyMuPDF: ValueError "document
\* closed") or gives a number, by the library build: raises tells which.
PdfLogAndReturn(raises) ==
    /\ up.pdf.pc = "log"
    /\ LET p == PdfAccess(up.pdf)
       IN  up' = [up EXCEPT !.pdf =
                     IF ~p.is_open /\ raises
                     THEN PdfRaise(p)
                     ELSE [p EXCEPT !.pc = "done", !.outcome = "ok",
                                    !.result = <<p.img_base64, p.text_content>>]]
    /\ UNCHANGED <<uuidCtr, assigned, lastBuild, built, dnodes, cnodes, edges, clock, sc, q, ex, hc, par, ws>>

NextPdf ==
    \/ PdfOpen
    \/ PdfPageText
    \/ PdfRender
    \/ PdfClose
    \/ \E raises \in BOOLEAN : PdfLogAndReturn(raises)

SpecPdf == InitPdf /\ [][NextPdf]_vars

\* the texts of the pages of a PDF, one after the other
RECURSIVE AllText(_)
AllText(pages) == IF pages = <<>> THEN <<>> ELSE Head(pages) \o AllText(Tail(pages))

\* C29: process_pdf accesses the document only while it is open, and for a PDF
\* with a page it returns the base64 image of the first page and the text of
\* all pages, not a failure.
C29_DocumentUsedOnlyWhileOpen ==
    /\ ~up.pdf.late
    /\ (up.pdf.pc = "done" /\ ~IsNull(up.pdf.doc) /\ Len(up.pdf.doc.v) > 0) =>
           /\ up.pdf.outcome = "ok"
           /\ up.pdf.result = <<Base64Png(1, up.pdf.doc.v[1]), AllText(up.pdf.doc.v)>>

-----------------------------------------------------------------------------
(* websocket_chat: the handler of one connection, one pass of its loop per     *)
(* text received.  The store holds one diagram; message ids are left out.      *)

MaxTexts == 2

\* What the handler did, added to its log.
Logged(w, what) == [w EXCEPT !.log = Append(w.log, what)]

\* ChatMessage(role, content, confidence) as a row of the messages table
ChatRow(role, content, confidence) ==
    [role |-> role, content |-> content, confidence |-> confidence]

\* WebSocketMessage(type, content)
WebSocketMessage(type, content) == [type |-> type, content |-> content]

InitChat ==
    /\ uuidCtr = BuiltRiser.u
    /\ assigned = {BuiltRiser.graph.diagram_id}
    /\ lastBuild = NoBuild
    /\ built = <<BuiltRiser.graph>>
    /\ dnodes = Alone(BuiltRiser.graph).dnodes
    /\ cnodes = Alone(BuiltRiser.graph).cnodes
    /\ edges = Alone(BuiltRiser.graph).edges
    /\ clock = Alone(BuiltRiser.graph).clock
    /\ sc = IdleStore
    /\ q = IdleQuery
    /\ ex = IdleExtract
    /\ up = IdleUpload
    /\ hc = IdleHealth
    /\ par = <<>>
    /\ ws \in {[IdleChat EXCEPT !.diagram_id = d] :
                  d \in {BuiltRiser.graph.diagram_id, Str("nope")}}

\* data = await websocket.receive_text()
ChatReceive(data) ==
    /\ ws.pc = "idle"
    /\ ws.n < MaxTexts
    /\ ws' = [ws EXCEPT !.pc = "save_user", !.n = ws.n + 1, !.data = data,
                        !.log = <<>>, !.io_failed = FALSE, !.result = Null]
    /\ UNCHANGED <<uuidCtr, assigned, lastBuild, built, dnodes, cnodes, edges, clock, sc, q, ex, up, hc, par>>

\* chat_service.save_message(user_message): False, and nothing saved, when the
\* INSERT fails; the return value is not looked at
ChatSaveUser(saved) ==
    /\ ws.pc = "save_user"
    /\ ws' = IF saved
             THEN [Logged(ws, "save_user") EXCEPT
                      !.pc = "status",
                      !.transcript = Append(ws.transcript,
                                            ChatRow("user", Str(ws.data), Null))]
             ELSE [ws EXCEPT !.pc = "status", !.io_failed = TRUE]
    /\ UNCHANGED <<uuidCtr, assigned, lastBuild, built, dnodes, cnodes, edges, clock, sc, q, ex, up, hc, par>>

\* await websocket.send_text(status): a send that raises ends the loop
ChatSendStatus(ok) ==
    /\ ws.pc = "status"
    /\ ws' = IF ok
             THEN [Logged(ws, "status") EXCEPT
                      !.pc = "query",
                      !.sent = Append(ws.sent,
                                      WebSocketMessage("status",
                                                       Str("Processing your question...")))]
             ELSE [ws EXCEPT !.pc = "closed", !.io_failed = TRUE]
    /\ UNCHANGED <<uuidCtr, assigned, lastBuild, built, dnodes, cnodes, edges, clock, sc, q, ex, up, hc, par>>

\* scene_service.query_scene_graphs(data, diagram_id) is called.
ChatQuery ==
    /\ ws.pc = "query"
    /\ q.pc = "idle"
    /\ q' = [IdleQuery EXCEPT !.pc = IF Truthy(ws.diagram_id) THEN "info" ELSE "list",
                              !.arg = ws.diagram_id, !.diagram_id = ws.diagram_id]
    /\ ws' = [Logged(ws, "query") EXCEPT !.pc = "querying"]
    /\ UNCHANGED <<uuidCtr, assigned, lastBuild, built, dnodes, cnodes, edges, clock, sc, ex, up, hc, par>>

\* query_scene_graphs returned or raised.  On a result the assistant
\* ChatMessage is constructed: content=result['answer'] is a str field, so an
\* answer that is None raises ValidationError into the except branch.
ChatQueryDone ==
    /\ ws.pc = "querying"
    /\ q.pc = "done"
    /\ q' = IdleQuery
    /\ ws' = IF q.outcome # "answered"
             THEN [ws EXCEPT !.pc = "error"]
             ELSE IF ~FieldStr(q.result.answer)
             THEN [ws EXCEPT !.pc = "error", !.result = q.result]
             ELSE [ws EXCEPT !.pc = "save_assistant", !.result = q.result]
    /\ UNCHANGED <<uuidCtr, assigned, lastBuild, built, dnodes, cnodes, edges, clock, sc, ex, up, hc, par>>

\* chat_service.save_message(assistant_message)
ChatSaveAssistant(saved) ==
    /\ ws.pc = "save_assistant"
    /\ ws' = IF saved
             THEN [Logged(ws, "save_assistant") EXCEPT
                      !.pc = "answer",
                      !.transcript = Append(ws.transcript,
                                            ChatRow("assistant", ws.result.answer,
                                                    ws.result.confidence))]
             ELSE [ws EXCEPT !.pc = "answer", !.io_failed = TRUE]
    /\ UNCHANGED <<uuidCtr, assigned, lastBuild, built, dnodes, cnodes, edges, clock, sc, q, ex, up, hc, par>>

\* await websocket.send_text(message): a send that raises is caught by the
\* except Exception of the inner try
ChatSendAnswer(ok) ==
    /\ ws.pc = "answer"
    /\ ws' = IF ok
             THEN [Logged(ws, "answer") EXCEPT
                      !.pc = "idle",
                      !.sent = Append(ws.sent,
                                      WebSocketMessage("message", ws.result.answer))]
             ELSE [ws EXCEPT !.pc = "error", !.io_failed = TRUE]
    /\ UNCHANGED <<uuidCtr, assigned, lastBuild, built, dnodes, cnodes, edges, clock, sc, q, ex, up, hc, par>>

\* except Exception: await websocket.send_text(error); a send that raises
\* ends the loop
ChatSendError(ok) ==
    /\ ws.pc = "error"
    /\ ws' = IF ok
             THEN [Logged(ws, "error") EXCEPT
                      !.pc = "idle",
                      !.sent = Append(ws.sent,
                                      WebSocketMessage("error",
                                          Str("Sorry, I encountered an error processing your question.")))]
             ELSE [ws EXCEPT !.pc = "closed", !.io_failed = TRUE]
    /\ UNCHANGED <<uuidCtr, assigned, lastBuild, built, dnodes, cnodes, edges, clock, sc, q, ex, up, hc, par>>

NextChat ==
    \/ \E data \in {"Q1", "Q2"} : ChatReceive(data)
    \/ \E saved \in BOOLEAN : ChatSaveUser(saved)
    \/ \E ok \in BOOLEAN : ChatSendStatus(ok)
    \/ ChatQuery
    \/ \E fails \in BOOLEAN : QueryInfo(fails)
    \/ \E fails \in BOOLEAN : QueryComponents(fails)
    \/ \E fails \in BOOLEAN : QueryRelationships(fails)
    \/ \E resp \in Answers : QueryInfer(resp)
    \/ ChatQueryDone
    \/ \E saved \in BOOLEAN : ChatSaveAssistant(saved)
    \/ \E ok \in BOOLEAN : ChatSendAnswer(ok)
    \/ \E ok \in BOOLEAN : ChatSendError(ok)

SpecChat == InitChat /\ [][NextChat]_vars

\* the handler is done with the last text, and no save and no send failed
Handled == ws.n > 0 /\ ws.pc = "idle" /\ ~ws.io_failed

\* C30: for a text received, with the transcript store and the socket working,
\* the handler saves the user message, sends the status message, runs the
\* query, and then either saves the assistant message and sends the answer or
\* sends an error, nothing else; it saves the assistant message exactly when
\* the query returned a result.
C30_ChatTurn ==
    Handled =>
        /\ ws.log \in {<<"save_user", "status", "query", "save_assistant", "answer">>,
                       <<"save_user", "status", "query", "error">>}
        /\ (\E k \in 1..Len(ws.log) : ws.log[k] = "save_assistant") <=> ws.result # Null

====
